---------------------------- MODULE Spec2Model ----------------------------
(***************************************************************************)
(* A model of the OCR post-processing cleaner: the English cleaning        *)
(* pipeline (english_cleaner.py), the Urdu normalizer, numeric cleaner,    *)
(* header remover and document pipeline (urdu_cleaner.py) and the batch    *)
(* driver process_folder.                                                  *)
(*                                                                         *)
(* A text is a sequence of characters; a character is a one-character      *)
(* string, or a short name for a character outside ASCII (NL, NBSP, ...).  *)
(* Every re.sub of the source is a left-to-right scan (ReSub) driven by a  *)
(* matcher that returns where the leftmost match starting at a position    *)
(* ends, written from the regular expression of the source line.           *)
(***************************************************************************)
EXTENDS Integers, Sequences, FiniteSets, TLC

VARIABLES
    pc,                 \* position of the operation under way
    zipfHigh,           \* wordfreq: the words whose zipf frequency is >= 2.5
    module_header_patterns,  \* the module-level list HEADER_PATTERNS, now
    \* a call of one function of the cleaner
    arg,                \* its arguments
    ret,                \* its result
    \* process_docx_file (English)
    paras,              \* the paragraphs read from the document
    audit,              \* the audit flag
    detected_headers,   \* the result of detect_repetitive_headers
    idx,                \* the cleaning loop: 1 + its index i
    cur_text,           \* the text inside enhanced_ocr_preclean
    cleaned_paras,      \* the list cleaned_paras
    origin,             \* for each cleaned paragraph, the index in paras it came from
    audit_rows,         \* the rows written to the audit CSV, after its header
    cleaned_text,       \* the string cleaned_text
    styled,             \* the paragraphs added to the new document
    \* process_folder
    track,              \* "english" or "urdu": whose process_folder runs
    root_exists,        \* root.exists()
    same_root,          \* output_dir is root_dir (app.py, archive mode)
    listing,            \* the files under root when the walk starts
    tree,               \* the files under root now
    visited,            \* the files rglob has yielded
    attempts,           \* the files handed to process_docx_file, in order
    failed,             \* those whose process_docx_file raised
    written,            \* the output files saved
    \* collect_and_rename_cleaned_files
    source_entries,     \* the files and directories under source_root
    output_before,      \* the entries of output_dir when the call starts
    output_entries,     \* the entries of output_dir now: name -> entry
    yielded,            \* the entries rglob has yielded
    file_path,          \* the loop variable file_path
    target_path,        \* the name of target_path inside output_dir
    counter             \* the local counter

callVars == <<arg, ret>>
docVars == <<paras, audit, detected_headers, idx, cur_text, cleaned_paras,
             origin, audit_rows, cleaned_text, styled>>
folderVars == <<track, root_exists, same_root, listing, tree, visited,
                attempts, failed, written>>
moduleVars == <<zipfHigh, module_header_patterns>>
renamerVars == <<source_entries, output_before, output_entries, yielded,
                 file_path, target_path, counter>>
vars == <<pc, moduleVars, renamerVars, callVars, docVars, folderVars>>

\* no call of collect_and_rename_cleaned_files under way
RenamerIdle ==
    /\ source_entries = {} /\ output_before = << >> /\ output_entries = << >>
    /\ yielded = {} /\ file_path = << >> /\ target_path = << >> /\ counter = 0

----------------------------------------------------------------------------
(* Characters and the character classes of Python's re and str.            *)

NL == "NL"          \* \n
CR == "CR"          \* \r
TAB == "TAB"        \* \t
NBSP == "NBSP"      \* U+00A0 no-break space
ZWSP == "ZWSP"      \* U+200B zero width space
EMDASH == "EMDASH"  \* U+2014 em dash
ENDASH == "ENDASH"  \* U+2013 en dash
LSQ == "LSQ"        \* U+2018
RSQ == "RSQ"        \* U+2019
LDQ == "LDQ"        \* U+201C
EOT == "EOT"        \* what At gives outside the text; in no class

Lower == {"a","b","c","d","e","f","g","h","i","j","k","l","m",
          "n","o","p","q","r","s","t","u","v","w","x","y","z"}
Upper == {"A","B","C","D","E","F","G","H","I","J","K","L","M",
          "N","O","P","Q","R","S","T","U","V","W","X","Y","Z"}
Letter == Lower \cup Upper
Digit == {"0","1","2","3","4","5","6","7","8","9"}
WordCh == Letter \cup Digit \cup {"_"}
\* \s of a str pattern, and what str.strip() removes
WS == {" ", TAB, NL, CR, "FF", "VT", NBSP, "FIGSP", "NNBSP"}
DashCh == {"-", ENDASH, EMDASH}
Roman == {"i","v","x","I","V","X"}

Range(s) == {s[i] : i \in 1..Len(s)}
At(t, i) == IF i >= 1 /\ i <= Len(t) THEN t[i] ELSE EOT

\* F(v) with v evaluated once: x is bound to the value of v.
Let(v, F(_)) == CHOOSE y \in {F(x) : x \in {v}} : TRUE

\* The end (exclusive) of the longest run of characters of S starting at i.
SpanEnd(t, i, S) ==
    IF i > Len(t) THEN i
    ELSE CHOOSE j \in i..(Len(t) + 1) :
             /\ At(t, j) \notin S
             /\ \A k \in i..(j - 1) : t[k] \in S

\* Whether the literal lit stands in t at position i.
LitAt(t, i, lit) ==
    /\ i + Len(lit) - 1 <= Len(t)
    /\ \A k \in 1..Len(lit) : t[i + k - 1] = lit[k]
\* the literal s somewhere in t
Occurs(s, t) == \E i \in 1..Len(t) : LitAt(t, i, s)

\* The least k with 2^k >= n.
Log2Ceil(n) == CHOOSE k \in 0..n : 2^k >= n /\ (k = 0 \/ 2^(k - 1) < n)

\* The left-to-right scan of re.sub, re.split and re.finditer.  MatchEnd(t, i)
\* is the end (exclusive) of the match starting at i, or 0.  The scan stands
\* at i: on a match it emits Hit(t, i, e) and moves to e, otherwise it emits
\* Miss(t, i) and moves to i + 1.  P[k, i] is <<what 2^k steps from i emit,
\* where they end>>.
Scan(t, MatchEnd(_, _), Hit(_, _, _), Miss(_, _)) ==
    LET n == Len(t)
        K == Log2Ceil(n + 1)
        Step(i) ==
            IF i > n THEN << << >>, i >>
            ELSE Let(MatchEnd(t, i),
                     LAMBDA e : IF e > i THEN <<Hit(t, i, e), e>>
                                ELSE <<Miss(t, i), i + 1>>)
        P[k \in 0..K, i \in 1..(n + 1)] ==
            IF k = 0 THEN Step(i)
            ELSE Let(P[k - 1, i], LAMBDA a :
                     IF a[2] > n THEN a
                     ELSE Let(P[k - 1, a[2]],
                              LAMBDA b : <<a[1] \o b[1], b[2]>>))
    IN  P[K, 1][1]

\* re.sub: replace the leftmost non-overlapping matches; Repl(t, i, e) is the
\* replacement text of the match t[i..e-1].
Same(t, i) == <<t[i]>>
ReSub(text, MatchEnd(_, _), Repl(_, _, _)) ==
    Let(text, LAMBDA t : Scan(t, MatchEnd, Repl, Same))

\* re.finditer: the <<start, end>> of the leftmost non-overlapping matches.
Span(t, i, e) == << <<i, e>> >>
Skip(t, i) == << >>
Matches(t, MatchEnd(_, _)) == Scan(t, MatchEnd, Span, Skip)

\* str.strip(), str.rstrip()
LStripFrom(t) == SpanEnd(t, 1, WS)
RStripTo(t) ==
    CHOOSE j \in 0..Len(t) :
        /\ (j = 0 \/ t[j] \notin WS)
        /\ \A k \in (j + 1)..Len(t) : t[k] \in WS
RStrip(text) == Let(text, LAMBDA t : SubSeq(t, 1, RStripTo(t)))
Strip(text) == Let(text, LAMBDA t : SubSeq(t, LStripFrom(t), RStripTo(t)))

\* The pieces of t between the separators ms (a sequence of <<start, end>>).
Between(t, ms) ==
    [j \in 1..(Len(ms) + 1) |->
        SubSeq(t, IF j = 1 THEN 1 ELSE ms[j - 1][2],
                  IF j = Len(ms) + 1 THEN Len(t) ELSE ms[j][1] - 1)]

\* str.split("\n\n"): the pieces between the non-overlapping separators.
NLNLEnd(t, i) == IF At(t, i) = NL /\ At(t, i + 1) = NL THEN i + 2 ELSE 0
SplitNN(text) ==
    Let(text, LAMBDA t :
        Let(Matches(t, NLNLEnd), LAMBDA ms : Between(t, ms)))

\* sep.join(ss)
Join(ss, sep) ==
    LET J[a \in 1..Len(ss), b \in 1..Len(ss)] ==
            IF a >= b THEN ss[a]
            ELSE J[a, (a + b) \div 2] \o sep \o J[(a + b) \div 2 + 1, b]
    IN  IF ss = << >> THEN << >> ELSE J[1, Len(ss)]
JoinNN(parts) == Let(parts, LAMBDA ps : Join(ps, <<NL, NL>>))

\* str.split(): the maximal runs of characters that are not whitespace.
TokenEnd(t, i) ==
    IF At(t, i) \in WS THEN 0
    ELSE CHOOSE j \in (i + 1)..(Len(t) + 1) :
             /\ (j = Len(t) + 1 \/ t[j] \in WS)
             /\ \A k \in i..(j - 1) : t[k] \notin WS
SplitWS(text) ==
    Let(text, LAMBDA t :
        Let(Matches(t, TokenEnd), LAMBDA ms :
            [j \in 1..Len(ms) |-> SubSeq(t, ms[j][1], ms[j][2] - 1)]))

\* " ".join(toks)
JoinSp(tokens) == Let(tokens, LAMBDA toks : Join(toks, <<" ">>))

\* The indexes k of s with Keep(k), in order.
SelectIdx(s, Keep(_)) ==
    LET K == {k \in 1..Len(s) : Keep(k)}
    IN  [j \in 1..Cardinality(K) |->
            CHOOSE k \in K : Cardinality({m \in K : m < k}) = j - 1]

\* re.sub(r"\s+", " ", para).strip()
WsRunEnd(t, i) == IF At(t, i) \in WS THEN SpanEnd(t, i, WS) ELSE 0
OneSpace(t, i, e) == <<" ">>
Nothing(t, i, e) == << >>
\* trimmed only, whitespace runs kept
TrimOnly(text) == Strip(text)
NormWs(text) == Strip(ReSub(text, WsRunEnd, OneSpace))

----------------------------------------------------------------------------
(* The Lexical Oracle.  wordfreq's table is data outside the repository:   *)
(* zipfHigh is the set of (lower-case) words it scores at 2.5 or above.    *)

LowerSeq == <<"a","b","c","d","e","f","g","h","i","j","k","l","m",
              "n","o","p","q","r","s","t","u","v","w","x","y","z">>
UpperSeq == <<"A","B","C","D","E","F","G","H","I","J","K","L","M",
              "N","O","P","Q","R","S","T","U","V","W","X","Y","Z">>
LowerCh(c) ==
    IF c \in Upper THEN LowerSeq[CHOOSE k \in 1..26 : UpperSeq[k] = c] ELSE c
ToLower(word) == Let(word, LAMBDA w : [k \in 1..Len(w) |-> LowerCh(w[k])])

\* zipf_frequency(w, "en") >= 2.5
ZipfAtLeastThreshold(w) == w \in zipfHigh

is_word(w) == ZipfAtLeastThreshold(ToLower(w))

\* EN_DICT.custom_words
custom_words ==
    { <<"e","c","o","n","o","m","e","t","r","i","c","s">>,
      <<"m","a","c","r","o","e","c","o","n","o","m","i","c","s">>,
      <<"k","e","y","n","e","s","i","a","n">>,
      <<"n","e","o","c","l","a","s","s","i","c","a","l">> }

\* str.strip(".,;:()[]{}")
DictStripCh == {".", ",", ";", ":", "(", ")", "[", "]", "{", "}"}
StripCharsOf(t, S) ==
    LET a == SpanEnd(t, 1, S)
        b == CHOOSE j \in 0..Len(t) :
                 /\ (j = 0 \/ t[j] \notin S)
                 /\ \A k \in (j + 1)..Len(t) : t[k] \in S
    IN  SubSeq(t, a, b)
StripChars(text, S) == Let(text, LAMBDA t : StripCharsOf(t, S))

\* SafeDict.check of EN_DICT
SafeDict_check(word) ==
    IF word = << >> THEN FALSE
    ELSE LET w == StripChars(ToLower(word), DictStripCh)
         IN  w \in custom_words \/ ZipfAtLeastThreshold(w)

----------------------------------------------------------------------------
(* normalize_unicode_and_spaces                                            *)

MapCh(text, F(_)) == Let(text, LAMBDA t : [k \in 1..Len(t) |-> F(t[k])])
DropCh(text, S) ==
    Let(text, LAMBDA t :
        Let(SelectIdx(t, LAMBDA k : t[k] \notin S), LAMBDA keep :
            [j \in 1..Len(keep) |-> t[keep[j]]]))

NbspToSpace(c) == IF c \in {NBSP, "FIGSP", "NNBSP"} THEN " " ELSE c
ZeroWidth == {ZWSP, "ZWNJ", "ZWJ", "BOM"}
CrLfEnd(t, i) == IF At(t, i) = CR
                 THEN (IF At(t, i + 1) = NL THEN i + 2 ELSE i + 1)
                 ELSE 0
OneNL(t, i, e) == <<NL>>
HSpace == {" ", TAB, "FF", "VT"}
HSpaceRunEnd(t, i) == IF At(t, i) \in HSpace THEN SpanEnd(t, i, HSpace) ELSE 0
\* \n{3,}
NL3End(t, i) ==
    IF At(t, i) = NL /\ SpanEnd(t, i, {NL}) - i >= 3
    THEN SpanEnd(t, i, {NL}) ELSE 0
TwoNL(t, i, e) == <<NL, NL>>

\* the spaces are collapsed before the zero-width characters are removed
CollapseBeforeZeroWidth(text) ==
    LET t1 == MapCh(text, NbspToSpace)
        t2 == ReSub(t1, HSpaceRunEnd, OneSpace)
        t3 == DropCh(t2, ZeroWidth)
        t4 == ReSub(t3, CrLfEnd, OneNL)
        t5 == ReSub(t4, NL3End, TwoNL)
    IN  Strip(t5)

normalize_unicode_and_spaces(text) ==
    LET t1 == MapCh(text, NbspToSpace)
        t2 == DropCh(t1, ZeroWidth)
        t3 == ReSub(t2, CrLfEnd, OneNL)
        t4 == ReSub(t3, HSpaceRunEnd, OneSpace)
        t5 == ReSub(t4, NL3End, TwoNL)
    IN  Strip(t5)

----------------------------------------------------------------------------
(* normalize_urdu_text of urdu_cleaner.py                                  *)

UrduNbspToSpace(c) == IF c = NBSP THEN " " ELSE c
\* U+066C to U+060C, U+066B to U+06D4
UrduPunctuation(c) == IF c = "ARTHOUSEP" THEN "ARCOMMA"
                      ELSE IF c = "ARDECSEP" THEN "URSTOP" ELSE c

normalize_urdu_text(text) ==
    LET t1 == MapCh(text, UrduNbspToSpace)
        t2 == ReSub(t1, HSpaceRunEnd, OneSpace)
        t3 == DropCh(t2, ZeroWidth)
        t4 == ReSub(t3, CrLfEnd, OneNL)
        t5 == ReSub(t4, NL3End, TwoNL)
        t6 == MapCh(t5, UrduPunctuation)
    IN  Strip(t6)

----------------------------------------------------------------------------

(* normalize_em_dashes                                                     *)

\* (?<=[A-Za-z])-{2,}(?=[A-Za-z])
Dash1End(t, i) ==
    LET e == SpanEnd(t, i, {"-"})
    IN  IF /\ At(t, i - 1) \in Letter
           /\ At(t, i) = "-"
           /\ e - i >= 2
           /\ At(t, e) \in Letter
        THEN e ELSE 0

\* \s+[-\u2013\u2014]\s+(?=[A-Za-z]): the letter before is not asked for
Dash2NoLookbehind(t, i) ==
    LET a == SpanEnd(t, i, WS)
        e == SpanEnd(t, a + 1, WS)
    IN  IF /\ a > i
           /\ At(t, a) \in DashCh
           /\ e > a + 1
           /\ At(t, e) \in Letter
        THEN e ELSE 0

\* (?<=[A-Za-z])\s+[-\u2013\u2014]\s+(?=[A-Za-z])
Dash2End(t, i) ==
    LET a == SpanEnd(t, i, WS)
        e == SpanEnd(t, a + 1, WS)
    IN  IF /\ At(t, i - 1) \in Letter
           /\ a > i
           /\ At(t, a) \in DashCh
           /\ e > a + 1
           /\ At(t, e) \in Letter
        THEN e ELSE 0

\* (?<=[A-Za-z])\s*-{2,}\s*(?=[A-Za-z])
Dash3End(t, i) ==
    LET a == SpanEnd(t, i, WS)
        b == SpanEnd(t, a, {"-"})
        e == SpanEnd(t, b, WS)
    IN  IF /\ At(t, i - 1) \in Letter
           /\ b - a >= 2
           /\ At(t, e) \in Letter
        THEN e ELSE 0

\* an en-dash in place of the em-dash
EnDash(t, i, e) == <<ENDASH>>
EmDash(t, i, e) == <<EMDASH>>
SpacedEmDash(t, i, e) == <<" ", EMDASH, " ">>

normalize_em_dashes(text) ==
    LET t1 == ReSub(text, Dash1End, EmDash)
        t2 == ReSub(t1, Dash2End, SpacedEmDash)
    IN  ReSub(t2, Dash3End, EmDash)

----------------------------------------------------------------------------
(* fix_ocr_hyphenated_words                                                *)

\* ([A-Za-z]+)-\s+([A-Za-z]+): <<end of group 1, start of group 2, end>>
HyphParts(t, i) ==
    LET a == SpanEnd(t, i, Letter)
        b == SpanEnd(t, a + 1, WS)
        e == SpanEnd(t, b, Letter)
    IN  <<a, b, e>>
HyphEnd(t, i) ==
    IF At(t, i) \notin Letter THEN 0
    ELSE Let(HyphParts(t, i), LAMBDA p :
             IF /\ At(t, p[1]) = "-"
                /\ p[2] > p[1] + 1
                /\ p[3] > p[2]
             THEN p[3] ELSE 0)

merge_match(t, i, e) ==
    Let(HyphParts(t, i), LAMBDA p :
        LET first == SubSeq(t, i, p[1] - 1)
            second == SubSeq(t, p[2], e - 1)
            combined == first \o second
        IN  IF is_word(ToLower(combined)) THEN combined
            ELSE first \o <<"-">> \o second)

HyphPass(t) == ReSub(t, HyphEnd, merge_match)

fix_ocr_hyphenated_words(text) == HyphPass(HyphPass(HyphPass(text)))

----------------------------------------------------------------------------
(* enhanced_ocr_preclean: the matchers of its regular expressions, in the  *)
(* order of the source.                                                    *)

UDIGIT == "UDIGIT"                      \* U+06F1, an Eastern Arabic-Indic digit
ALEF == "ALEF"                          \* U+0627, an Arabic letter
DigitU == Digit \cup {UDIGIT}           \* \d and str.isdigit()
ArabicBlock == {UDIGIT, ALEF, "ARCOMMA", "URSTOP", "ARTHOUSEP", "ARDECSEP"}
                                        \* [\u0600-\u06FF]
WordU == WordCh \cup {UDIGIT, ALEF}     \* \w
Alnum == Letter \cup Digit              \* [0-9A-Za-z]

SetMax(S) == CHOOSE x \in S : \A y \in S : y <= x
LineStart(t, i) == i = 1 \/ At(t, i - 1) = NL                 \* (?m)^
LineEnd(t, i) ==                                              \* .* from i
    IF i > Len(t) THEN i
    ELSE CHOOSE j \in i..(Len(t) + 1) :
             /\ (j = Len(t) + 1 \/ t[j] = NL)
             /\ \A k \in i..(j - 1) : t[k] # NL
\* \s*$ under (?m) from d: the longest run of whitespace that ends at the
\* end of the text or before a newline
WsToLineEnd(t, d) ==
    LET w == SpanEnd(t, d, WS)
        E == {k \in d..w : k = Len(t) + 1 \/ At(t, k) = NL}
    IN  IF E = {} THEN 0 ELSE SetMax(E)
AtEnd(t, k) == k = Len(t) + 1 \/ (k = Len(t) /\ t[k] = NL)    \* $

\* \s*-\s*
SpacedHyphenEnd(t, i) ==
    LET a == SpanEnd(t, i, WS)
    IN  IF At(t, a) = "-" THEN SpanEnd(t, a + 1, WS) ELSE 0
Hyphen(t, i, e) == <<"-">>

\* (?m)^\s*\[?[ivxIVX]+\]?\s*$
RomanEnd(t, i) ==
    IF ~LineStart(t, i) THEN 0
    ELSE LET a == SpanEnd(t, i, WS)
             b == IF At(t, a) = "[" THEN a + 1 ELSE a
             c == SpanEnd(t, b, Roman)
             d == IF At(t, c) = "]" THEN c + 1 ELSE c
         IN  IF c > b THEN WsToLineEnd(t, d) ELSE 0

\* (?m)^\*\s?.*\n?
StarEnd(t, i) ==
    IF LineStart(t, i) /\ At(t, i) = "*"
    THEN LET a == IF At(t, i + 1) \in WS THEN i + 2 ELSE i + 1
             b == LineEnd(t, a)
         IN  IF At(t, b) = NL THEN b + 1 ELSE b
    ELSE 0

\* \s*\[\d{1,3}\]\s*
FootnoteEnd(t, i) ==
    LET a == SpanEnd(t, i, WS)
        b == SpanEnd(t, a + 1, DigitU)
    IN  IF /\ At(t, a) = "["
           /\ b - (a + 1) \in 1..3
           /\ At(t, b) = "]"
        THEN SpanEnd(t, b + 1, WS) ELSE 0

\* str.isdigit() or re.match(r'^[0-9]{1,3}$', text)
IsNumericOnly(t) ==
    \/ t # << >> /\ Range(t) \subseteq DigitU
    \/ LET d == SpanEnd(t, 1, Digit)
       IN  d - 1 \in 1..3 /\ AtEnd(t, d)

\* re.match(r'^[-\u2013\u2014]?\s*\(?\d{1,3}\)?\s*[-\u2013\u2014]?$', text)
IsPageNumber(t) ==
    LET a == IF At(t, 1) \in DashCh THEN 2 ELSE 1
        b == SpanEnd(t, a, WS)
        c == IF At(t, b) = "(" THEN b + 1 ELSE b
        d == SpanEnd(t, c, DigitU)
        e == IF At(t, d) = ")" THEN d + 1 ELSE d
        f == SpanEnd(t, e, WS)
        g == IF At(t, f) \in DashCh THEN f + 1 ELSE f
    IN  d - c \in 1..3 /\ AtEnd(t, g)

\* only the empty paragraphs are skipped
KeepNonEmpty(p) == p # << >>

\* step 4 and 5: the paragraphs kept, joined again
KeepParagraph(p) == p # << >> /\ ~IsNumericOnly(p) /\ ~IsPageNumber(p)
DropNumericParagraphs(text) ==
    Let(MapCh(SplitNN(text), Strip), LAMBDA ps :
        LET keep == SelectIdx(ps, LAMBDA k : KeepParagraph(ps[k]))
        IN  JoinNN([k \in 1..Len(keep) |-> ps[keep[k]]]))

\* \b(\d{1,2})\.(\d{2})\s*(A\.M|P\.M)\b, IGNORECASE:
\* <<end of the hour, start of the marker, end>> or 0
TimeParts(t, i) ==
    LET h == SpanEnd(t, i, DigitU)
        h1 == IF h - i >= 2 /\ At(t, i + 2) = "." THEN i + 2
              ELSE IF At(t, i + 1) = "." THEN i + 1 ELSE 0
        m == SpanEnd(t, h1 + 3, WS)
    IN  IF /\ At(t, i) \in DigitU
           /\ At(t, i - 1) \notin WordU
           /\ h1 > 0
           /\ At(t, h1 + 1) \in DigitU
           /\ At(t, h1 + 2) \in DigitU
           /\ At(t, m) \in {"A", "a", "P", "p"}
           /\ At(t, m + 1) = "."
           /\ At(t, m + 2) \in {"M", "m"}
           /\ At(t, m + 3) \notin WordU
        THEN <<h1, m, m + 3>> ELSE <<0, 0, 0>>
TimeEnd(t, i) == TimeParts(t, i)[3]
TimeRepl(t, i, e) ==
    Let(TimeParts(t, i), LAMBDA p :
        SubSeq(t, i, p[1] - 1) \o <<":">> \o SubSeq(t, p[1] + 1, p[1] + 2)
            \o <<" ">> \o SubSeq(t, p[2], e - 1))

\* ^\d+\s*[A-Za-z].*?(?=\n|$), MULTILINE
NumberedLineEnd(t, i) ==
    IF LineStart(t, i) /\ At(t, i) \in DigitU
    THEN LET b == SpanEnd(t, SpanEnd(t, i, DigitU), WS)
         IN  IF At(t, b) \in Letter THEN LineEnd(t, b + 1) ELSE 0
    ELSE 0

\* ^(?:Page\s*\d+)\s*$, MULTILINE
PageLineEnd(t, i) ==
    IF LineStart(t, i) /\ LitAt(t, i, <<"P", "a", "g", "e">>)
    THEN LET a == SpanEnd(t, i + 4, WS)
             b == SpanEnd(t, a, DigitU)
         IN  IF b > a THEN WsToLineEnd(t, b) ELSE 0
    ELSE 0

\* (?<![A-Z])(?<=[a-z])\d+
DigitsAfterLowerEnd(t, i) ==
    IF At(t, i - 1) \in Lower /\ At(t, i - 1) \notin Upper /\ At(t, i) \in DigitU
    THEN SpanEnd(t, i, DigitU) ELSE 0

\* ^\s*\d{1,2}\s+[A-Za-z]+\b.*$, MULTILINE
NumberWordLineEnd(t, i) ==
    IF ~LineStart(t, i) THEN 0
    ELSE LET a == SpanEnd(t, i, WS)
             b == SpanEnd(t, a, DigitU)
             c == SpanEnd(t, b, WS)
             d == SpanEnd(t, c, Letter)
         IN  IF /\ b - a \in 1..2
                /\ c > b
                /\ d > c
                /\ At(t, d) \notin WordU
             THEN LineEnd(t, d) ELSE 0

\* (\n\s*\d{1,2}\s+.*)+\Z : whether the groups tile the text from i to its end
TrailingBlockAt(t) ==
    LET n == Len(t)
        ok[i \in 1..(n + 1)] ==
            /\ At(t, i) = NL
            /\ LET a == SpanEnd(t, i + 1, WS)
                   b == SpanEnd(t, a, DigitU)
                   w == SpanEnd(t, b, WS)
               IN  /\ b - a \in 1..2
                   /\ \E s \in (b + 1)..w :
                          LET c == LineEnd(t, s)
                          IN  c = n + 1 \/ ok[c]
    IN  ok
TrailingBlockEnd(t, i) ==
    IF At(t, i) = NL /\ TrailingBlockAt(t)[i] THEN Len(t) + 1 ELSE 0

\* \(\s*pg\.?\s*\d+\s*\), IGNORECASE
PgFootnoteEnd(t, i) ==
    IF At(t, i) # "(" THEN 0
    ELSE LET a == SpanEnd(t, i + 1, WS)
             b == IF At(t, a + 2) = "." THEN a + 3 ELSE a + 2
             c == SpanEnd(t, b, WS)
             d == SpanEnd(t, c, DigitU)
             e == SpanEnd(t, d, WS)
         IN  IF /\ At(t, a) \in {"p", "P"}
                /\ At(t, a + 1) \in {"g", "G"}
                /\ d > c
                /\ At(t, e) = ")"
             THEN e + 1 ELSE 0

\* (?<!\d)\.[0-9A-Za-z]+(?=\s|$)
DotSuffixEnd(t, i) ==
    LET a == SpanEnd(t, i + 1, Alnum)
    IN  IF /\ At(t, i) = "."
           /\ At(t, i - 1) \notin DigitU
           /\ a > i + 1
           /\ (At(t, a) \in WS \/ a = Len(t) + 1)
        THEN a ELSE 0
Dot(t, i, e) == <<".">>

\* \.(\*)
DotStarEnd(t, i) == IF At(t, i) = "." /\ At(t, i + 1) = "*" THEN i + 2 ELSE 0

\* \.\s*\d+\s+(?=[A-Z])
DotNumberCapEnd(t, i) ==
    LET a == SpanEnd(t, i + 1, WS)
        b == SpanEnd(t, a, DigitU)
        c == SpanEnd(t, b, WS)
    IN  IF At(t, i) = "." /\ b > a /\ c > b /\ At(t, c) \in Upper
        THEN c ELSE 0
DotSpace(t, i, e) == <<".", " ">>

\* "\s*(\d+)(?=\s|[A-Z])
QuoteNumberEnd(t, i) ==
    LET a == SpanEnd(t, i + 1, WS)
        b == SpanEnd(t, a, DigitU)
    IN  IF At(t, i) = "\"" /\ b > a /\ At(t, b) \in WS \cup Upper
        THEN b ELSE 0
Quote(t, i, e) == <<"\"">>

\* (?<!\d),(\d{1,3})(?=\s+[A-Za-z\u0600-\u06FF])
CommaNumberEnd(t, i) ==
    LET b == SpanEnd(t, i + 1, DigitU)
        c == SpanEnd(t, b, WS)
    IN  IF /\ At(t, i) = ","
           /\ At(t, i - 1) \notin DigitU
           /\ b - (i + 1) \in 1..3
           /\ c > b
           /\ At(t, c) \in Letter \cup ArabicBlock
        THEN b ELSE 0
Comma(t, i, e) == <<",">>

\* \.\s+\d+(?=\s+[A-Z\u0600-\u06FF]|$)
DotSpaceNumberEnd(t, i) ==
    LET a == SpanEnd(t, i + 1, WS)
        b == SpanEnd(t, a, DigitU)
        c == SpanEnd(t, b, WS)
    IN  IF /\ At(t, i) = "."
           /\ a > i + 1
           /\ b > a
           /\ \/ c > b /\ At(t, c) \in Upper \cup ArabicBlock
              \/ AtEnd(t, b)
        THEN b ELSE 0

\* ([:;])\d+(?=\s|$)
ColonNumberEnd(t, i) ==
    LET b == SpanEnd(t, i + 1, DigitU)
    IN  IF /\ At(t, i) \in {":", ";"}
           /\ b > i + 1
           /\ (At(t, b) \in WS \/ b = Len(t) + 1)
        THEN b ELSE 0
FirstCh(t, i, e) == <<t[i]>>

\* ["""] (three straight quotes in the source) and [\u2018\u2019]
StraightQuoteEnd(t, i) == IF At(t, i) = "\"" THEN i + 1 ELSE 0
CurlySingleEnd(t, i) == IF At(t, i) \in {LSQ, RSQ} THEN i + 1 ELSE 0
Apostrophe(t, i, e) == <<"'">>

\* (?<=[.!?])\s{2,}(?=\S)
SentenceGapEnd(t, i) ==
    LET e == SpanEnd(t, i, WS)
    IN  IF /\ At(t, i - 1) \in {".", "!", "?"}
           /\ e - i >= 2
           /\ e <= Len(t)
        THEN e ELSE 0

\* steps 3 to 8 of enhanced_ocr_preclean, after the hyphen fix
ScrubArtifacts(text) ==
    LET t01 == ReSub(text, SpacedHyphenEnd, Hyphen)
        t02 == ReSub(t01, RomanEnd, Nothing)
        t03 == ReSub(t02, StarEnd, Nothing)
        t04 == ReSub(t03, FootnoteEnd, OneSpace)
        t05 == DropNumericParagraphs(t04)
        t06 == ReSub(t05, TimeEnd, TimeRepl)
        t07 == ReSub(t06, NumberedLineEnd, Nothing)
        t08 == ReSub(t07, PageLineEnd, Nothing)
        t09 == ReSub(t08, DigitsAfterLowerEnd, Nothing)
        t10 == ReSub(t09, NumberWordLineEnd, Nothing)
        t11 == ReSub(t10, TrailingBlockEnd, Nothing)
        t12 == ReSub(t11, PgFootnoteEnd, Nothing)
        t13 == ReSub(t12, DotSuffixEnd, Dot)
        t14 == ReSub(t13, DotStarEnd, Dot)
        t15 == ReSub(t14, DotNumberCapEnd, DotSpace)
        t16 == ReSub(t15, QuoteNumberEnd, Quote)
        t17 == ReSub(t16, CommaNumberEnd, Comma)
        t18 == ReSub(t17, DotSpaceNumberEnd, DotSpace)
        t19 == ReSub(t18, ColonNumberEnd, FirstCh)
        t20 == ReSub(t19, StraightQuoteEnd, Quote)
        t21 == ReSub(t20, CurlySingleEnd, Apostrophe)
        t22 == ReSub(t21, NL3End, TwoNL)
        t23 == ReSub(t22, SentenceGapEnd, OneSpace)
    IN  Strip(t23)

enhanced_ocr_preclean(text) ==
    IF text = << >> THEN text
    ELSE ScrubArtifacts(
             fix_ocr_hyphenated_words(
                 normalize_unicode_and_spaces(
                     normalize_em_dashes(text))))

ocr_preclean(text) == enhanced_ocr_preclean(text)

----------------------------------------------------------------------------
(* Repetitive headers: detect_repetitive_headers and remove_known_headers   *)
(* of english_cleaner.py, remove_known_headers of urdu_cleaner.py.          *)

\* s[:n]
Prefix(s, n) == IF Len(s) > n THEN SubSeq(s, 1, n) ELSE s
Ellipsis == <<".", ".", ".">>

\* _safe_preview(s)
safe_preview(s) == IF Len(s) > 140 THEN Prefix(s, 140) \o Ellipsis ELSE s

\* Counter(normalized)[line]
CountOf(lines, line) == Cardinality({k \in 1..Len(lines) : lines[k] = line})

\* the lines detect_repetitive_headers counts: stripped, not empty, not a
\* page number, more than two letters
IsCandidateLine(line) ==
    /\ line # << >>
    /\ ~IsPageNumber(line)
    /\ Cardinality({k \in 1..Len(line) : line[k] \in Letter}) > 2

\* line.islower(): some cased character and none of them upper-case
IsLowerStr(line) ==
    /\ \E k \in 1..Len(line) : line[k] \in Letter
    /\ \A k \in 1..Len(line) : line[k] \notin Upper

\* a line must occur more often than min_repeats
MoreThanMinRepeats(paragraphs, min_repeats) ==
    LET stripped == MapCh(paragraphs, Strip)
        keep == SelectIdx(stripped, LAMBDA k : IsCandidateLine(stripped[k]))
        normalized == [j \in 1..Len(keep) |-> stripped[keep[j]]]
    IN  {line \in Range(normalized) :
            /\ CountOf(normalized, line) > min_repeats
            /\ ~IsLowerStr(line)
            /\ line[1] \notin DigitU}

detect_repetitive_headers(paragraphs, min_repeats) ==
    LET stripped == MapCh(paragraphs, Strip)
        keep == SelectIdx(stripped, LAMBDA k : IsCandidateLine(stripped[k]))
        normalized == [j \in 1..Len(keep) |-> stripped[keep[j]]]
    IN  {line \in Range(normalized) :
            /\ CountOf(normalized, line) >= min_repeats
            /\ ~IsLowerStr(line)
            /\ line[1] \notin DigitU}

\* HEADER_PATTERNS
HEADER_PATTERNS == {}

\* A header pattern is [kind |-> "line", text |-> h], the compiled
\* ^\s*<re.escape(h)>\s*$ of a detected header h, or [kind |-> "prefix",
\* text |-> lit], a literal regular expression.  pat.match(stripped):
PatMatch(pat, s) ==
    IF pat.kind = "line"
    THEN \E i \in 1..SpanEnd(s, 1, WS) :
             /\ LitAt(s, i, pat.text)
             /\ \E j \in (i + Len(pat.text))..SpanEnd(s, i + Len(pat.text), WS) :
                    AtEnd(s, j)
    ELSE LitAt(s, 1, pat.text)

\* [fr'^\s*{p}\s*$' for p in auto_patterns]
dynamic_header_regex(headers) ==
    {[kind |-> "line", text |-> h] : h \in headers}

\* local_header_patterns is the module's list itself: extend writes to it
ExtendedInPlace(table, added) == table \cup added
\* HEADER_PATTERNS after local_header_patterns.extend(added): the local list
\* is a copy, so the module's list is what it was
ModuleListAfterExtend(table, added) == table

\* every occurrence counts as the first
AlwaysFirst(stripped, seen_headers) == TRUE

\* "if stripped not in seen_headers": the first occurrence is kept
FirstOccurrence(stripped, seen_headers) == stripped \notin seen_headers

\* remove_known_headers of english_cleaner.py.  The result is the list
\* returned (filtered), the indexes of the paragraphs kept (kept) and the
\* rows written to the audit writer (rows: <<para_index, action, pattern,
\* before_preview, after_preview>>).
remove_known_headers(paragraphs, headers, header_patterns, audit_writer) ==
    LET loop[k \in 0..Len(paragraphs)] ==
            IF k = 0
            THEN [filtered |-> << >>, kept |-> << >>,
                  seen_headers |-> {}, rows |-> << >>]
            ELSE Let(loop[k - 1], LAMBDA s :
                 Let(Strip(paragraphs[k]), LAMBDA stripped :
                 LET byRegex == \E pat \in header_patterns : PatMatch(pat, stripped)
                 IN  IF byRegex \/ stripped \in headers
                     THEN IF FirstOccurrence(stripped, s.seen_headers)
                          THEN [s EXCEPT
                                   !.seen_headers = @ \cup {stripped},
                                   !.filtered = Append(@, paragraphs[k]),
                                   !.kept = Append(@, k)]
                          ELSE IF audit_writer
                          THEN [s EXCEPT !.rows = Append(@,
                                   <<k - 1, "remove_header",
                                     IF byRegex THEN "regex_header_duplicate"
                                     ELSE "exact_header_duplicate",
                                     safe_preview(stripped), << >> >>)]
                          ELSE s
                     ELSE [s EXCEPT !.filtered = Append(@, paragraphs[k]),
                                    !.kept = Append(@, k)]))
    IN  loop[Len(paragraphs)]

\* remove_known_headers of urdu_cleaner.py
urdu_remove_known_headers(paragraphs, headers, audit_writer) ==
    LET loop[k \in 0..Len(paragraphs)] ==
            IF k = 0
            THEN [filtered |-> << >>, kept |-> << >>, seen |-> {}, rows |-> << >>]
            ELSE Let(loop[k - 1], LAMBDA s :
                 Let(Strip(paragraphs[k]), LAMBDA stripped :
                     IF stripped \in headers
                     THEN IF FirstOccurrence(stripped, s.seen)
                          THEN [s EXCEPT
                                   !.seen = @ \cup {stripped},
                                   !.filtered = Append(@, paragraphs[k]),
                                   !.kept = Append(@, k)]
                          ELSE IF audit_writer
                          THEN [s EXCEPT !.rows = Append(@,
                                   <<k - 1, "remove_header", "repetitive_header",
                                     Prefix(stripped, 80), << >> >>)]
                          ELSE s
                     ELSE [s EXCEPT !.filtered = Append(@, paragraphs[k]),
                                    !.kept = Append(@, k)]))
    IN  loop[Len(paragraphs)]

----------------------------------------------------------------------------
(* The paragraph mergers of english_cleaner.py.                            *)

Last(s) == s[Len(s)]

\* [p.strip() for p in text.split("\n\n") if p.strip()]
StrippedParagraphs(text) ==
    Let(MapCh(SplitNN(text), Strip), LAMBDA ps :
        Let(SelectIdx(ps, LAMBDA k : ps[k] # << >>), LAMBDA keep :
            [j \in 1..Len(keep) |-> ps[keep[j]]]))

\* c.islower() of one character
IsLowerCh(c) == c \in Lower

\* the next paragraph is not looked at
EndsLower(para, next) == IsLowerCh(Last(para))

\* the condition of the inner loop of merge_soft_split_paragraphs_text
SoftSplit(para, next) ==
    /\ IsLowerCh(Last(para))
    /\ Last(para) \notin {".", "!", "?"}
    /\ IsLowerCh(Head(Strip(next)))

\* the inner loop from paragraph i with the paragraph formed so far:
\* <<the paragraph formed, the index of the last paragraph merged>>
RECURSIVE SoftChain(_, _, _)
SoftChain(ps, i, para) ==
    IF i + 1 <= Len(ps) /\ SoftSplit(para, ps[i + 1])
    THEN Let(para \o <<" ">> \o Strip(ps[i + 1]),
             LAMBDA q : SoftChain(ps, i + 1, q))
    ELSE <<para, i>>

merge_soft_split_paragraphs_text(text) ==
    Let(StrippedParagraphs(text), LAMBDA ps :
        LET loop[i \in 1..(Len(ps) + 1)] ==
                IF i > Len(ps) THEN << >>
                ELSE Let(SoftChain(ps, i, ps[i]), LAMBDA c :
                         <<NormWs(c[1])>> \o loop[c[2] + 1])
        IN  JoinNN(loop[1]))

\* the inner loop of merge_paragraphs_split_by_hyphen
RECURSIVE HyphenLineChain(_, _, _)
HyphenLineChain(ps, i, para) ==
    IF i + 1 <= Len(ps) /\ Strip(ps[i + 1]) = <<"-">>
    THEN Let(IF i + 2 <= Len(ps) THEN Strip(ps[i + 2]) ELSE << >>,
             LAMBDA next_para :
                 Let(IF next_para # << >>
                     THEN para \o <<" ", "-", " ">> \o next_para
                     ELSE para \o <<" ", "-">>,
                     LAMBDA q : HyphenLineChain(ps, i + 2, q)))
    ELSE <<para, i>>

merge_paragraphs_split_by_hyphen(text) ==
    Let(StrippedParagraphs(text), LAMBDA ps :
        LET loop[i \in 1..(Len(ps) + 2)] ==
                IF i > Len(ps) THEN << >>
                ELSE Let(HyphenLineChain(ps, i, ps[i]), LAMBDA c :
                         <<NormWs(c[1])>> \o loop[c[2] + 1])
        IN  JoinNN(loop[1]))

\* re.search(r'([A-Za-z]+)-\s*$', cur): the start of group 1, or 0
TrailingHyphenStart(cur) ==
    LET e == RStripTo(cur)
    IN  IF e >= 2 /\ cur[e] = "-" /\ cur[e - 1] \in Letter
        THEN CHOOSE a \in 1..(e - 1) :
                 /\ \A k \in a..(e - 1) : cur[k] \in Letter
                 /\ At(cur, a - 1) \notin Letter
        ELSE 0
\* m.group(1)
TrailingWord(cur) == SubSeq(cur, TrailingHyphenStart(cur), RStripTo(cur) - 1)

\* re.match(r'^(\[\d+\]|\d+|[-\u2013\u2014]+)$', candidate)
IsJunk(candidate) ==
    LET n == Len(candidate)
    IN  \/ /\ n >= 3
           /\ candidate[1] = "[" /\ candidate[n] = "]"
           /\ \A k \in 2..(n - 1) : candidate[k] \in DigitU
        \/ n >= 1 /\ \A k \in 1..n : candidate[k] \in DigitU
        \/ n >= 1 /\ \A k \in 1..n : candidate[k] \in DashCh

\* the look-ahead of merge_broken_words: the first j > i whose paragraph,
\* stripped, is not junk; Len + 1 if there is none
NextCandidate(paragraphs, i) ==
    LET C == {j \in (i + 1)..Len(paragraphs) : ~IsJunk(Strip(paragraphs[j]))}
    IN  IF C = {} THEN Len(paragraphs) + 1
        ELSE CHOOSE j \in C : \A k \in C : j <= k

\* cur[:-len(m.group(0))] + full_word + " " + rest
MergedWord(cur, next_para) ==
    Let(SplitWS(next_para), LAMBDA toks :
        SubSeq(cur, 1, TrailingHyphenStart(cur) - 1)
            \o TrailingWord(cur) \o toks[1] \o <<" ">> \o JoinSp(Tail(toks)))

\* the "while True" loop of merge_broken_words from paragraph i:
\* <<cur, i, the audit rows written>>
RECURSIVE BrokenChain(_, _, _, _, _)
BrokenChain(paragraphs, i, cur, rows, audit_writer) ==
    IF TrailingHyphenStart(cur) = 0 THEN <<cur, i, rows>>
    ELSE Let(NextCandidate(paragraphs, i), LAMBDA j :
         Let(IF j <= Len(paragraphs) THEN Strip(paragraphs[j]) ELSE << >>,
             LAMBDA next_para :
             IF next_para = << >> THEN <<cur, i, rows>>
             ELSE Let(MergedWord(cur, next_para), LAMBDA merged :
                  Let(IF audit_writer
                      THEN Append(rows,
                               <<i - 1, "merge_broken_word_multi",
                                 TrailingWord(cur) \o <<"-", " ", "+", " ">>
                                     \o Prefix(next_para, 30) \o Ellipsis,
                                 Prefix(merged, 50) \o Ellipsis,
                                 Prefix(merged, 50) \o Ellipsis>>)
                      ELSE rows,
                      LAMBDA rs :
                          BrokenChain(paragraphs, j, merged, rs, audit_writer)))))

\* merge_broken_words: the list returned (merged) and the audit rows written
merge_broken_words(paragraphs, audit_writer) ==
    LET n == Len(paragraphs)
        loop[i \in 1..(n + 1)] ==
            IF i > n THEN [merged |-> << >>, rows |-> << >>]
            ELSE Let(BrokenChain(paragraphs, i, RStrip(paragraphs[i]), << >>,
                                 audit_writer),
                     LAMBDA c :
                         Let(loop[c[2] + 1], LAMBDA r :
                             [merged |-> <<c[1]>> \o r.merged,
                              rows |-> c[3] \o r.rows]))
    IN  loop[1]

\* is_heading
is_heading(text) == Len(Strip(text)) < 60

----------------------------------------------------------------------------
(* process_docx_file of english_cleaner.py, one action per step.  Inside    *)
(* the cleaning loop the calls of enhanced_ocr_preclean are steps of their  *)
(* own, in the order of the source.                                         *)

\* the sequences over S of length at most n
SeqsUpTo(S, n) == UNION {[1..k -> S] : k \in 0..n}

\* "not p or p.isspace()"
IsBlank(p) == Range(p) \subseteq WS

\* [p for p in cleaned_text.split("\n\n") if p.strip()]
NonBlankParagraphs(text) ==
    Let(SplitNN(text), LAMBDA ps :
        Let(SelectIdx(ps, LAMBDA k : Strip(ps[k]) # << >>), LAMBDA keep :
            [j \in 1..Len(keep) |-> ps[keep[j]]]))

CallIdle == arg = << >> /\ ret = << >>
FolderIdle ==
    /\ track = "english" /\ root_exists = TRUE /\ same_root = FALSE
    /\ listing = {} /\ tree = {} /\ visited = {}
    /\ attempts = << >> /\ failed = {} /\ written = {}
DocIdle ==
    /\ paras = << >> /\ audit = FALSE /\ detected_headers = {}
    /\ idx = 0 /\ cur_text = << >> /\ cleaned_paras = << >> /\ origin = << >>
    /\ audit_rows = << >> /\ cleaned_text = << >> /\ styled = << >>

\* the document is read: paras, the audit flag
Loaded(docs) ==
    /\ pc = "loaded"
    /\ zipfHigh = {}
    /\ module_header_patterns = HEADER_PATTERNS
    /\ RenamerIdle
    /\ paras \in docs
    /\ audit \in BOOLEAN
    /\ detected_headers = {} /\ idx = 0 /\ cur_text = << >>
    /\ cleaned_paras = << >> /\ origin = << >> /\ audit_rows = << >>
    /\ cleaned_text = << >> /\ styled = << >>
    /\ CallIdle /\ FolderIdle

DetectHeaders ==
    /\ pc = "loaded"
    /\ detected_headers' = detect_repetitive_headers(paras, 3)
    /\ idx' = 1
    /\ pc' = "clean"
    /\ UNCHANGED <<moduleVars, renamerVars, callVars, folderVars, paras, audit, cur_text,
                   cleaned_paras, origin, audit_rows, cleaned_text, styled>>

SkipBlank ==
    /\ pc = "clean" /\ idx <= Len(paras)
    /\ IsBlank(paras[idx])
    /\ idx' = idx + 1
    /\ UNCHANGED <<pc, moduleVars, renamerVars, callVars, folderVars, paras, audit,
                   detected_headers, cur_text, cleaned_paras, origin,
                   audit_rows, cleaned_text, styled>>

NormalizeEmDashes ==
    /\ pc = "clean" /\ idx <= Len(paras)
    /\ ~IsBlank(paras[idx])
    /\ cur_text' = normalize_em_dashes(paras[idx])
    /\ pc' = "dashes_normalized"
    /\ UNCHANGED <<moduleVars, renamerVars, callVars, folderVars, paras, audit,
                   detected_headers, idx, cleaned_paras, origin, audit_rows,
                   cleaned_text, styled>>

NormalizeUnicode ==
    /\ pc = "dashes_normalized"
    /\ cur_text' = normalize_unicode_and_spaces(cur_text)
    /\ pc' = "unicode_normalized"
    /\ UNCHANGED <<moduleVars, renamerVars, callVars, folderVars, paras, audit,
                   detected_headers, idx, cleaned_paras, origin, audit_rows,
                   cleaned_text, styled>>

FixHyphenatedWords ==
    /\ pc = "unicode_normalized"
    /\ cur_text' = fix_ocr_hyphenated_words(cur_text)
    /\ pc' = "hyphens_fixed"
    /\ UNCHANGED <<moduleVars, renamerVars, callVars, folderVars, paras, audit,
                   detected_headers, idx, cleaned_paras, origin, audit_rows,
                   cleaned_text, styled>>

\* the rest of enhanced_ocr_preclean, then the audit row and the append
ScrubParagraph ==
    /\ pc = "hyphens_fixed"
    /\ \E cleaned \in {ScrubArtifacts(cur_text)} :
           /\ cleaned_paras' = Append(cleaned_paras, cleaned)
           /\ audit_rows' =
                  IF cleaned # paras[idx] /\ audit
                  THEN Append(audit_rows,
                           <<idx - 1, "ocr_preclean", "",
                             safe_preview(paras[idx]), safe_preview(cleaned)>>)
                  ELSE audit_rows
    /\ origin' = Append(origin, idx)
    /\ cur_text' = << >>
    /\ idx' = idx + 1
    /\ pc' = "clean"
    /\ UNCHANGED <<moduleVars, renamerVars, callVars, folderVars, paras, audit,
                   detected_headers, cleaned_text, styled>>

RemoveHeaders ==
    /\ pc = "clean" /\ idx > Len(paras)
    /\ LET local_header_patterns ==
               module_header_patterns
                   \cup dynamic_header_regex(detected_headers)
           r == remove_known_headers(cleaned_paras, detected_headers,
                                     local_header_patterns, audit)
       IN  /\ cleaned_paras' = r.filtered
           /\ origin' = [j \in 1..Len(r.kept) |-> origin[r.kept[j]]]
           /\ audit_rows' = audit_rows \o r.rows
    /\ module_header_patterns' =
           ModuleListAfterExtend(module_header_patterns,
                                 dynamic_header_regex(detected_headers))
    /\ pc' = "headers_removed"
    /\ UNCHANGED <<zipfHigh, renamerVars, callVars, folderVars, paras, audit,
                   detected_headers, idx, cur_text, cleaned_text, styled>>

MergeSoftSplit ==
    /\ pc = "headers_removed"
    /\ cleaned_text' = merge_soft_split_paragraphs_text(JoinNN(cleaned_paras))
    /\ pc' = "soft_merged"
    /\ UNCHANGED <<moduleVars, renamerVars, callVars, folderVars, paras, audit,
                   detected_headers, idx, cur_text, cleaned_paras, origin,
                   audit_rows, styled>>

MergeHyphenLines ==
    /\ pc = "soft_merged"
    /\ cleaned_text' = merge_paragraphs_split_by_hyphen(cleaned_text)
    /\ pc' = "hyphen_merged"
    /\ UNCHANGED <<moduleVars, renamerVars, callVars, folderVars, paras, audit,
                   detected_headers, idx, cur_text, cleaned_paras, origin,
                   audit_rows, styled>>

MergeBrokenWords ==
    /\ pc = "hyphen_merged"
    /\ LET r == merge_broken_words(NonBlankParagraphs(cleaned_text), audit)
       IN  /\ cleaned_paras' = r.merged
           /\ audit_rows' = audit_rows \o r.rows
    /\ origin' = << >>
    /\ pc' = "merged"
    /\ UNCHANGED <<moduleVars, renamerVars, callVars, folderVars, paras, audit,
                   detected_headers, idx, cur_text, cleaned_text, styled>>

\* URDU_ONLY_CHARS: U+0679, U+0688, U+0691, U+06BA, U+06BE, U+06C1, U+06D2
UrduOnlyChars == {"TTEH", "DDAL", "RREH", "NOONGHUNNA", "HEHDOACHASHMEE",
                  "HEHGOAL", "YEHBARREE"}
\* [\u0600-\u06FF]
ArabicRange == ArabicBlock \cup UrduOnlyChars
\* \w with the Urdu letters
WordW == WordU \cup UrduOnlyChars
\* \b between t[i - 1] and t[i]
WordBoundary(t, i) == (At(t, i - 1) \in WordW) # (At(t, i) \in WordW)

\* \b[A-Za-z\u0600-\u06FF\u0750-\u077F']+\b
WordTokenCh == Letter \cup ArabicRange \cup {"'"}
WordTokenEnd(t, i) ==
    IF At(t, i) \notin WordTokenCh \/ ~WordBoundary(t, i) THEN 0
    ELSE LET ends == {e \in (i + 1)..SpanEnd(t, i, WordTokenCh) :
                         WordBoundary(t, e)}
         IN  IF ends = {} THEN 0
             ELSE CHOOSE e \in ends : \A x \in ends : x <= e

\* w.isupper(): some cased character and none of them lower-case
IsUpperStr(w) ==
    /\ \E k \in 1..Len(w) : w[k] \in Letter
    /\ \A k \in 1..Len(w) : w[k] \notin Lower

\* EN_WORD_RE.match(w): ^[A-Za-z][A-Za-z']+$
EN_WORD_RE(w) ==
    /\ Len(w) >= 2
    /\ w[1] \in Letter
    /\ \A k \in 2..Len(w) : w[k] \in Letter \cup {"'"}
\* AR_WORD_RE.match(w): ^[\u0600-\u06FF]+$
AR_WORD_RE(w) == w # << >> /\ Range(w) \subseteq ArabicRange
is_arabic_word(w) == AR_WORD_RE(w) /\ Range(w) \cap UrduOnlyChars = {}

\* whether highlight_misspellings_in_paragraph adds w to misspelled
Misspelled(w) ==
    /\ Len(w) >= 4 /\ ~IsUpperStr(w)
    /\ IF EN_WORD_RE(w) THEN ~is_word(w)
       ELSE AR_WORD_RE(w) /\ ~is_arabic_word(w)

\* re.split with the separator captured: the pieces and the separators
SplitKeeping(text, MatchEnd(_, _)) ==
    Let(text, LAMBDA t :
        Let(Matches(t, MatchEnd), LAMBDA ms :
            Let(Between(t, ms), LAMBDA pieces :
                [j \in 1..(2 * Len(ms) + 1) |->
                    IF j % 2 = 1 THEN pieces[(j + 1) \div 2]
                    ELSE SubSeq(t, ms[j \div 2][1], ms[j \div 2][2] - 1)])))

\* the runs added for the tokens of re.split(r"(\s+)", para_text), bold at
\* 14pt when the paragraph is a heading
TokenRuns(text, heading) ==
    Let(SplitKeeping(text, WsRunEnd), LAMBDA tokens :
        [j \in 1..Len(tokens) |->
            [text |-> tokens[j],
             bold |-> heading,
             size |-> IF heading THEN "14pt" ELSE "inherited",
             highlight |-> FALSE]])

\* clear_paragraph removes every child of the paragraph element, the
\* paragraph properties that hold the alignment among them
clear_paragraph(alignment) == "NONE"

\* highlight_misspellings_in_paragraph: with no misspelled word the
\* paragraph stays as it is; otherwise it is cleared and rebuilt, one plain
\* run per token, the misspelled ones highlighted
highlight_misspellings_in_paragraph(p) ==
    Let(Matches(p.text, WordTokenEnd), LAMBDA ms :
        LET misspelled ==
                {w \in {SubSeq(p.text, ms[j][1], ms[j][2] - 1) :
                           j \in 1..Len(ms)} : Misspelled(w)}
        IN  IF misspelled = {} THEN p
            ELSE Let(SplitKeeping(p.text, WordTokenEnd), LAMBDA tokens :
                     [p EXCEPT
                         !.alignment = clear_paragraph(@),
                         !.runs = [j \in 1..Len(tokens) |->
                                      [text |-> tokens[j],
                                       bold |-> FALSE,
                                       size |-> "inherited",
                                       highlight |-> tokens[j] \in misspelled]]]))

\* the loop that builds the new document: the runs of the tokens, the
\* paragraph justified, the runs of a heading bold at 14pt, then the
\* misspellings highlighted
StyleParagraphs ==
    /\ pc = "merged"
    /\ styled' = [k \in 1..Len(cleaned_paras) |->
                     highlight_misspellings_in_paragraph(
                         [text |-> cleaned_paras[k],
                          alignment |-> "JUSTIFY",
                          heading |-> is_heading(cleaned_paras[k]),
                          runs |-> TokenRuns(cleaned_paras[k],
                                             is_heading(cleaned_paras[k]))])]
    /\ pc' = "styled"
    /\ UNCHANGED <<moduleVars, renamerVars, callVars, folderVars, paras, audit,
                   detected_headers, idx, cur_text, cleaned_paras, origin,
                   audit_rows, cleaned_text>>

\* new.save(output_docx), the audit file closed
SaveDocument ==
    /\ pc = "styled"
    /\ pc' = "done"
    /\ UNCHANGED <<moduleVars, renamerVars, callVars, folderVars, docVars>>

\* The paragraphs of the documents checked.
MaxParas == 3
DocPool ==
    { <<"A", "b", "c", "1">>,             \* a header line the scrub changes
      <<"T", "o", "p">>,                  \* a header line it leaves alone
      <<"c", "a", "t">>,
      <<"a", ZWSP, "-", "-", "b">>,
      <<" ">>,
      <<"-">>,
      <<"w", "o", "-">> }

Init == Loaded(SeqsUpTo(DocPool, MaxParas))

Next ==
    \/ DetectHeaders
    \/ SkipBlank
    \/ NormalizeEmDashes
    \/ NormalizeUnicode
    \/ FixHyphenatedWords
    \/ ScrubParagraph
    \/ RemoveHeaders
    \/ MergeSoftSplit
    \/ MergeHyphenLines
    \/ MergeBrokenWords
    \/ StyleParagraphs
    \/ SaveDocument

Spec == Init /\ [][Next]_vars

----------------------------------------------------------------------------
(* The same pipeline over the paragraphs that make the scrubber write.      *)

MaxCharParas == 2
CharPool ==
    { <<"1", ".", "4", "0", "A", ".", "M">>,
      <<"a", RSQ>>,
      <<"a", "-", "-", "b">>,
      <<"c", "a", "t">>,
      <<" ">>,
      <<"-">>,
      <<"w", "o", "-">> }

InitChars == Loaded(SeqsUpTo(CharPool, MaxCharParas))
SpecChars == InitChars /\ [][Next]_vars

----------------------------------------------------------------------------
(* A batch: process_docx_file called on one document after another in the *)
(* same process.  attempts holds the documents already processed.          *)

MaxBatch == 2
MaxBatchParas == 3
BatchPool == { <<"T", "o", "p">>, <<"c", "a", "t">> }
\* the documents of a batch, one of them with a blank paragraph
BatchDocuments ==
    SeqsUpTo(BatchPool, MaxBatchParas)
        \cup { << <<" ">>, <<"T", "o", "p">>, <<"T", "o", "p">> >> }

\* the next call of process_docx_file: its locals are new, the module-level
\* list is the one the calls before left
NextDocument ==
    /\ pc = "done"
    /\ Len(attempts) + 1 < MaxBatch
    /\ attempts' = Append(attempts, paras)
    /\ paras' \in BatchDocuments
    /\ detected_headers' = {} /\ idx' = 0 /\ cur_text' = << >>
    /\ cleaned_paras' = << >> /\ origin' = << >> /\ audit_rows' = << >>
    /\ cleaned_text' = << >> /\ styled' = << >>
    /\ pc' = "loaded"
    /\ UNCHANGED <<moduleVars, renamerVars, callVars, audit, track, root_exists, same_root,
                   listing, tree, visited, failed, written>>

InitBatch == Loaded(BatchDocuments) /\ audit = FALSE
NextBatch == Next \/ NextDocument
SpecBatch == InitBatch /\ [][NextBatch]_vars

----------------------------------------------------------------------------

(* The same pipeline over paragraphs with words the oracle may not know.   *)

MaxStyleParas == 2
LongParagraph ==
    [k \in 1..74 |-> IF k % 5 = 0 THEN " "
                     ELSE <<"w", "o", "r", "d">>[k % 5]]
StyleWords == { <<"w", "o", "r", "d">>, <<"t", "o", "p", "s">> }
StylePool ==
    { <<"w", "o", "r", "d">>,
      <<"T", "o", "p", "s", " ", "c", "a", "t">>,
      <<"C", "a", "t">>,
      LongParagraph,
      <<" ">> }

InitStyle ==
    /\ pc = "loaded"
    /\ zipfHigh \in SUBSET StyleWords
    /\ module_header_patterns = HEADER_PATTERNS
    /\ RenamerIdle
    /\ paras \in SeqsUpTo(StylePool, MaxStyleParas)
    /\ audit = FALSE
    /\ detected_headers = {} /\ idx = 0 /\ cur_text = << >>
    /\ cleaned_paras = << >> /\ origin = << >> /\ audit_rows = << >>
    /\ cleaned_text = << >> /\ styled = << >>
    /\ CallIdle /\ FolderIdle
SpecStyle == InitStyle /\ [][Next]_vars

----------------------------------------------------------------------------

(* The same pipeline over documents with page-number paragraphs.           *)

MaxPageParas == 4
PagePool ==
    { <<"T", "o", "p">>,
      <<"c", "a", "t">>,
      <<"-", " ", "4", "2", " ", "-">>,
      <<"(", "4", ")">>,
      <<"7">>,
      <<" ">> }

\* the audit is off: the rows written play no part in what is saved
InitPages == Loaded(SeqsUpTo(PagePool, MaxPageParas)) /\ audit = FALSE
SpecPages == InitPages /\ [][Next]_vars

----------------------------------------------------------------------------

(* urdu_cleaner.py: clean_urdu_numeric_artifacts, detect_repetitive_headers *)
(* and process_docx_file.                                                  *)

\* [\u06F0-\u06F90-9]
UrduDigit == Digit \cup {UDIGIT}

\* re.fullmatch(r'[\u06F0-\u06F90-9]{1,3}', p)
UrduNumericLine(p) ==
    LET d == SpanEnd(p, 1, UrduDigit)
    IN  d - 1 \in 1..3 /\ AtEnd(p, d)

\* re.fullmatch(r'[-\u2013\u2014]?\s*\(?[\u06F0-\u06F90-9]{1,3}\)?\s*[-\u2013\u2014]?', p)
UrduPageNumber(p) ==
    LET a == IF At(p, 1) \in DashCh THEN 2 ELSE 1
        b == SpanEnd(p, a, WS)
        c == IF At(p, b) = "(" THEN b + 1 ELSE b
        d == SpanEnd(p, c, UrduDigit)
        e == IF At(p, d) = ")" THEN d + 1 ELSE d
        f == SpanEnd(p, e, WS)
        g == IF At(p, f) \in DashCh THEN f + 1 ELSE f
    IN  d - c \in 1..3 /\ AtEnd(p, g)

\* re.fullmatch(r'[\[\(]\s*[\u06F0-\u06F90-9]{1,3}\s*[\]\)]', p)
UrduNumericFootnote(p) ==
    LET b == SpanEnd(p, 2, WS)
        d == SpanEnd(p, b, UrduDigit)
        f == SpanEnd(p, d, WS)
    IN  /\ At(p, 1) \in {"[", "("}
        /\ d - b \in 1..3
        /\ At(p, f) \in {"]", ")"}
        /\ AtEnd(p, f + 1)

UrduKeepParagraph(p) ==
    /\ p # << >>
    /\ ~UrduNumericLine(p)
    /\ ~UrduPageNumber(p)
    /\ ~UrduNumericFootnote(p)

clean_urdu_numeric_artifacts(text) ==
    IF text = << >> THEN text
    ELSE Let(MapCh(SplitNN(ReSub(text, CrLfEnd, OneNL)), Strip), LAMBDA ps :
             LET keep == SelectIdx(ps, LAMBDA k : UrduKeepParagraph(ps[k]))
                 joined == JoinNN([k \in 1..Len(keep) |-> ps[keep[k]]])
             IN  Strip(ReSub(joined, NL3End, TwoNL)))

\* URDU_CHAR_RE.search(text)
is_urdu_text(text) == \E k \in 1..Len(text) : text[k] \in ArabicBlock

\* re.match(r'^[-\u2013\u2014]*\s*\(?\d{1,3}\)?\s*[-\u2013\u2014]*$', line)
UrduDecorativeLine(line) ==
    LET a == SpanEnd(line, 1, DashCh)
        b == SpanEnd(line, a, WS)
        c == IF At(line, b) = "(" THEN b + 1 ELSE b
        d == SpanEnd(line, c, DigitU)
        e == IF At(line, d) = ")" THEN d + 1 ELSE d
        f == SpanEnd(line, e, WS)
        g == SpanEnd(line, f, DashCh)
    IN  d - c \in 1..3 /\ AtEnd(line, g)

urdu_detect_repetitive_headers(paragraphs, min_repeats) ==
    LET stripped == MapCh(paragraphs, Strip)
        keep == SelectIdx(stripped, LAMBDA k :
                    /\ stripped[k] # << >>
                    /\ ~UrduDecorativeLine(stripped[k])
                    /\ is_urdu_text(stripped[k]))
        normalized == [j \in 1..Len(keep) |-> stripped[keep[j]]]
    IN  {line \in Range(normalized) : CountOf(normalized, line) >= min_repeats}

\* raw_paras: the paragraphs with text, trimmed
raw_paras(ps) ==
    Let(SelectIdx(ps, LAMBDA k : Strip(ps[k]) # << >>), LAMBDA keep :
        [j \in 1..Len(keep) |-> Strip(ps[keep[j]])])

\* the document is read, and every paragraph with text normalized and cleaned
UrduCleanParagraphs ==
    /\ pc = "urdu_loaded"
    /\ \E raw \in {raw_paras(paras)} :
           cleaned_paras' = [k \in 1..Len(raw) |->
               clean_urdu_numeric_artifacts(normalize_urdu_text(raw[k]))]
    /\ pc' = "urdu_cleaned"
    /\ UNCHANGED <<moduleVars, renamerVars, callVars, folderVars, paras, audit,
                   detected_headers, idx, cur_text, origin, audit_rows,
                   cleaned_text, styled>>

UrduRemoveHeaders ==
    /\ pc = "urdu_cleaned"
    /\ \E headers \in {urdu_detect_repetitive_headers(cleaned_paras, 3)} :
       \E r \in {urdu_remove_known_headers(cleaned_paras, headers, audit)} :
           /\ detected_headers' = headers
           /\ cleaned_paras' = r.filtered
           /\ audit_rows' = audit_rows \o r.rows
    /\ pc' = "urdu_headers_removed"
    /\ UNCHANGED <<moduleVars, renamerVars, callVars, folderVars, paras, audit, idx,
                   cur_text, origin, cleaned_text, styled>>

\* one paragraph of the new document for each text of cleaned
UrduBuildDocument ==
    /\ pc = "urdu_headers_removed"
    /\ styled' = [k \in 1..Len(cleaned_paras) |->
                     [text |-> cleaned_paras[k],
                      alignment |-> "JUSTIFY",
                      heading |-> FALSE]]
    /\ pc' = "urdu_built"
    /\ UNCHANGED <<moduleVars, renamerVars, callVars, folderVars, paras, audit,
                   detected_headers, idx, cur_text, cleaned_paras, origin,
                   audit_rows, cleaned_text>>

\* new.save(output_docx), the audit file closed
UrduSaveDocument ==
    /\ pc = "urdu_built"
    /\ pc' = "urdu_done"
    /\ UNCHANGED <<moduleVars, renamerVars, callVars, folderVars, docVars>>

MaxUrduParas == 4
UrduPool ==
    { <<ALEF, ALEF>>,
      <<ALEF, " ", "ARTHOUSEP">>,
      <<UDIGIT, UDIGIT>>,
      <<"7">>,
      <<"(", "4", ")">>,
      <<"[", UDIGIT, "]">>,
      <<"-", " ", "4", "2", " ", "-">>,
      <<" ">> }

InitUrduDoc ==
    /\ pc = "urdu_loaded"
    /\ zipfHigh = {}
    /\ module_header_patterns = HEADER_PATTERNS
    /\ RenamerIdle
    /\ paras \in SeqsUpTo(UrduPool, MaxUrduParas)
    /\ audit \in BOOLEAN
    /\ detected_headers = {} /\ idx = 0 /\ cur_text = << >>
    /\ cleaned_paras = << >> /\ origin = << >> /\ audit_rows = << >>
    /\ cleaned_text = << >> /\ styled = << >>
    /\ CallIdle /\ FolderIdle
NextUrduDoc ==
    \/ UrduCleanParagraphs
    \/ UrduRemoveHeaders
    \/ UrduBuildDocument
    \/ UrduSaveDocument
SpecUrduDoc == InitUrduDoc /\ [][NextUrduDoc]_vars

----------------------------------------------------------------------------

(* The functions called on their own: the caller's arguments are arg, the   *)
(* value returned is ret.                                                   *)

\* remove_known_headers(paragraphs, detected_headers, header_patterns, writer)
CallRemoveKnownHeaders ==
    /\ pc = "call"
    /\ ret' = remove_known_headers(arg.paragraphs, arg.headers,
                 arg.header_patterns, arg.audit_writer)
    /\ pc' = "en_done"
    /\ UNCHANGED <<moduleVars, renamerVars, arg, docVars, folderVars>>

\* urdu_cleaner.remove_known_headers(paragraphs, detected_headers, writer)
CallUrduRemoveKnownHeaders ==
    /\ pc = "call"
    /\ ret' = urdu_remove_known_headers(arg.paragraphs, arg.headers,
                 arg.audit_writer)
    /\ pc' = "ur_done"
    /\ UNCHANGED <<moduleVars, renamerVars, arg, docVars, folderVars>>

MaxHeaderParas == 4
HeaderPool == { <<"A", "b">>, <<" ", "A", "b">>, <<"b">>, <<"C", "d", " ">> }
HeaderLines == { <<"A", "b">>, <<"C", "d">> }
HeaderPatternSets ==
    { HEADER_PATTERNS,
      dynamic_header_regex({<<"A", "b">>}),
      {[kind |-> "prefix", text |-> <<"C">>]} }

InitHeaders ==
    /\ pc = "call"
    /\ zipfHigh = {}
    /\ module_header_patterns = HEADER_PATTERNS
    /\ RenamerIdle
    /\ arg \in [paragraphs : SeqsUpTo(HeaderPool, MaxHeaderParas),
                headers : SUBSET HeaderLines,
                header_patterns : HeaderPatternSets,
                audit_writer : BOOLEAN]
    /\ ret = << >>
    /\ DocIdle /\ FolderIdle
NextHeaders == CallRemoveKnownHeaders \/ CallUrduRemoveKnownHeaders
SpecHeaders == InitHeaders /\ [][NextHeaders]_vars

\* fix_ocr_hyphenated_words(text)
CallFixHyphenatedWords ==
    /\ pc = "call"
    /\ ret' = fix_ocr_hyphenated_words(arg)
    /\ pc' = "hyph_done"
    /\ UNCHANGED <<moduleVars, renamerVars, arg, docVars, folderVars>>

HyphFirst == { <<"k", "e", "y", "n">>, <<"a">>, <<"W", "e", "l", "l">> }
HyphGaps == { <<" ">>, <<" ", " ">>, <<NL>> }
HyphSecond == { <<"e", "s", "i", "a", "n">>, <<"b">>, <<"f", "o", "r", "m", "e", "d">> }
HyphWords == { <<"k", "e", "y", "n", "e", "s", "i", "a", "n">>, <<"a", "b">>, <<"w", "e", "l", "l", "f", "o", "r", "m", "e", "d">> }

InitHyphen ==
    /\ pc = "call"
    /\ zipfHigh \in SUBSET HyphWords
    /\ module_header_patterns = HEADER_PATTERNS
    /\ RenamerIdle
    /\ arg \in {w1 \o <<"-">> \o g \o w2 :
                    w1 \in HyphFirst, g \in HyphGaps, w2 \in HyphSecond}
    /\ ret = << >>
    /\ DocIdle /\ FolderIdle
NextHyphen == CallFixHyphenatedWords
SpecHyphen == InitHyphen /\ [][NextHyphen]_vars

\* merge_broken_words(paragraphs, audit_writer)
CallMergeBrokenWords ==
    /\ pc = "call"
    /\ ret' = merge_broken_words(arg.paragraphs, arg.audit_writer)
    /\ pc' = "broken_done"
    /\ UNCHANGED <<moduleVars, renamerVars, arg, docVars, folderVars>>

MaxBrokenParas == 4
BrokenPool == { <<"w", "o", "-">>, <<"r", "d", " ", "x">>, <<"1", "2">>, <<"[", "1", "]">>, <<"-">>, <<" ">> }

InitBroken ==
    /\ pc = "call"
    /\ zipfHigh = {}
    /\ module_header_patterns = HEADER_PATTERNS
    /\ RenamerIdle
    /\ arg \in [paragraphs : SeqsUpTo(BrokenPool, MaxBrokenParas),
                audit_writer : BOOLEAN]
    /\ ret = << >>
    /\ DocIdle /\ FolderIdle
NextBroken == CallMergeBrokenWords
SpecBroken == InitBroken /\ [][NextBroken]_vars

\* merge_soft_split_paragraphs_text("\n\n".join(paragraphs))
CallMergeSoftSplit ==
    /\ pc = "call"
    /\ ret' = merge_soft_split_paragraphs_text(JoinNN(arg.paragraphs))
    /\ pc' = "soft_done"
    /\ UNCHANGED <<moduleVars, renamerVars, arg, docVars, folderVars>>

MaxSoftParas == 3
SoftPool == { <<"c", "a", "t">>, <<"m", "a", "t", ".">>, <<"D", "o", "g">>, <<"a", " ", " ", "b">>, <<" ", "x", " ">>, <<"9", "a">>, << >> }

InitSoft ==
    /\ pc = "call"
    /\ zipfHigh = {}
    /\ module_header_patterns = HEADER_PATTERNS
    /\ RenamerIdle
    /\ arg \in [paragraphs : SeqsUpTo(SoftPool, MaxSoftParas)]
    /\ ret = << >>
    /\ DocIdle /\ FolderIdle
NextSoft == CallMergeSoftSplit
SpecSoft == InitSoft /\ [][NextSoft]_vars

\* merge_paragraphs_split_by_hyphen("\n\n".join(paragraphs))
CallMergeHyphenLines ==
    /\ pc = "call"
    /\ ret' = merge_paragraphs_split_by_hyphen(JoinNN(arg.paragraphs))
    /\ pc' = "hyphen_line_done"
    /\ UNCHANGED <<moduleVars, renamerVars, arg, docVars, folderVars>>

MaxHyphenLineParas == 4
HyphenLinePool == { <<"a">>, <<"-">>, <<"b", " ", " ", "c">>, <<" ", "-", " ">>, <<"d", ".">> }

InitHyphenLine ==
    /\ pc = "call"
    /\ zipfHigh = {}
    /\ module_header_patterns = HEADER_PATTERNS
    /\ RenamerIdle
    /\ arg \in [paragraphs : SeqsUpTo(HyphenLinePool, MaxHyphenLineParas)]
    /\ ret = << >>
    /\ DocIdle /\ FolderIdle
NextHyphenLine == CallMergeHyphenLines
SpecHyphenLine == InitHyphenLine /\ [][NextHyphenLine]_vars

\* f(x) and f(f(x)) for f = merge_soft_split_paragraphs_text
CallSoftSplitTwice ==
    /\ pc = "call"
    /\ \E once \in {merge_soft_split_paragraphs_text(arg)} :
           ret' = [once |-> once,
                   twice |-> merge_soft_split_paragraphs_text(once)]
    /\ pc' = "soft_twice"
    /\ UNCHANGED <<moduleVars, renamerVars, arg, docVars, folderVars>>

\* f(x) and f(f(x)) for f = merge_paragraphs_split_by_hyphen
CallHyphenLinesTwice ==
    /\ pc = "call"
    /\ \E once \in {merge_paragraphs_split_by_hyphen(arg)} :
           ret' = [once |-> once,
                   twice |-> merge_paragraphs_split_by_hyphen(once)]
    /\ pc' = "hyphen_line_twice"
    /\ UNCHANGED <<moduleVars, renamerVars, arg, docVars, folderVars>>

MaxTwiceParas == 3
TwicePool ==
    { <<"c", "a", "t">>, <<"a", " ", " ", "b">>, <<"-">>, <<"D", "o", "g", ".">>, <<"x">> \o <<NL>> \o <<"y">>, <<TAB>> \o <<"z">> \o <<NBSP>>,
      <<NL>>, << >> }

InitMergeTwice ==
    /\ pc = "call"
    /\ zipfHigh = {}
    /\ module_header_patterns = HEADER_PATTERNS
    /\ RenamerIdle
    /\ arg \in {JoinNN(ps) : ps \in SeqsUpTo(TwicePool, MaxTwiceParas)}
    /\ ret = << >>
    /\ DocIdle /\ FolderIdle
NextMergeTwice == CallSoftSplitTwice \/ CallHyphenLinesTwice
SpecMergeTwice == InitMergeTwice /\ [][NextMergeTwice]_vars

----------------------------------------------------------------------------
(* normalize_unicode_and_spaces and normalize_em_dashes, each applied to   *)
(* its own output                                                          *)

CallNormalizeUnicodeTwice ==
    /\ pc = "call"
    /\ \E once \in {normalize_unicode_and_spaces(arg)} :
           ret' = [once |-> once,
                   twice |-> normalize_unicode_and_spaces(once)]
    /\ pc' = "unicode_twice"
    /\ UNCHANGED <<moduleVars, renamerVars, arg, docVars, folderVars>>

CallNormalizeDashesTwice ==
    /\ pc = "call"
    /\ \E once \in {normalize_em_dashes(arg)} :
           ret' = [once |-> once,
                   twice |-> normalize_em_dashes(once)]
    /\ pc' = "dashes_twice"
    /\ UNCHANGED <<moduleVars, renamerVars, arg, docVars, folderVars>>

MaxUnicodeLen == 5
MaxDashLen == 5
UnicodeChars == {"a", " ", NL, CR, NBSP, ZWSP}
DashChars == {"a", "-", " ", EMDASH, "1"}
InitNormalizeTwice ==
    /\ pc = "call"
    /\ zipfHigh = {}
    /\ module_header_patterns = HEADER_PATTERNS
    /\ RenamerIdle
    /\ arg \in SeqsUpTo(UnicodeChars, MaxUnicodeLen)
                  \cup SeqsUpTo(DashChars, MaxDashLen)
    /\ ret = << >>
    /\ DocIdle /\ FolderIdle
NextNormalizeTwice == CallNormalizeUnicodeTwice \/ CallNormalizeDashesTwice
SpecNormalizeTwice == InitNormalizeTwice /\ [][NextNormalizeTwice]_vars

----------------------------------------------------------------------------

(* normalize_urdu_text applied to its own output                           *)

CallNormalizeUrduTwice ==
    /\ pc = "call"
    /\ \E once \in {normalize_urdu_text(arg)} :
           ret' = [once |-> once, twice |-> normalize_urdu_text(once)]
    /\ pc' = "urdu_twice"
    /\ UNCHANGED <<moduleVars, renamerVars, arg, docVars, folderVars>>

MaxUrduLen == 5
UrduChars == {ALEF, " ", ZWSP, NL, NBSP, "ARTHOUSEP"}
InitUrduNormalize ==
    /\ pc = "call"
    /\ zipfHigh = {}
    /\ module_header_patterns = HEADER_PATTERNS
    /\ RenamerIdle
    /\ arg \in SeqsUpTo(UrduChars, MaxUrduLen)
    /\ ret = << >>
    /\ DocIdle /\ FolderIdle
NextUrduNormalize == CallNormalizeUrduTwice
SpecUrduNormalize == InitUrduNormalize /\ [][NextUrduNormalize]_vars

----------------------------------------------------------------------------

(* normalize_em_dashes on its own                                          *)

CallNormalizeEmDashes ==
    /\ pc = "call"
    /\ ret' = normalize_em_dashes(arg)
    /\ pc' = "dashes_done"
    /\ UNCHANGED <<moduleVars, renamerVars, arg, docVars, folderVars>>

MaxDashTextLen == 6
DashTextChars == {"a", "1", "-", " ", ENDASH}
InitDashes ==
    /\ pc = "call"
    /\ zipfHigh = {}
    /\ module_header_patterns = HEADER_PATTERNS
    /\ RenamerIdle
    /\ arg \in SeqsUpTo(DashTextChars, MaxDashTextLen)
    /\ ret = << >>
    /\ DocIdle /\ FolderIdle
NextDashes == CallNormalizeEmDashes
SpecDashes == InitDashes /\ [][NextDashes]_vars

----------------------------------------------------------------------------

(* enhanced_ocr_preclean on a text with a clock time in it                 *)

\* the text: what stands before the time, the hour, ".", the minute, the
\* whitespace before the marker, the marker, what follows
TimeText(a) ==
    a.before \o a.hour \o <<".">> \o a.minute \o a.gap \o a.marker \o a.after

CallPrecleanTime ==
    /\ pc = "call"
    /\ ret' = enhanced_ocr_preclean(TimeText(arg))
    /\ pc' = "time_done"
    /\ UNCHANGED <<moduleVars, renamerVars, arg, docVars, folderVars>>

TimeBefore == {<< >>, <<"a", "t", " ">>, <<"(">>}
TimeHours == {<<"9">>, <<"1", "1">>}
TimeMinutes == {<<"4", "0">>, <<"0", "5">>}
TimeGaps == {<< >>, <<" ">>}
TimeMarkers == {<<"A", ".", "M">>, <<"P", ".", "M">>, <<"a", ".", "m">>}
TimeAfter == {<< >>, <<" ", "x">>, <<".">>, <<",">>, <<")">>, <<NL, NL, "x">>}
InitTime ==
    /\ pc = "call"
    /\ zipfHigh = {}
    /\ module_header_patterns = HEADER_PATTERNS
    /\ RenamerIdle
    /\ arg \in [before : TimeBefore, hour : TimeHours, minute : TimeMinutes,
                gap : TimeGaps, marker : TimeMarkers, after : TimeAfter]
    /\ ret = << >>
    /\ DocIdle /\ FolderIdle
NextTime == CallPrecleanTime
SpecTime == InitTime /\ [][NextTime]_vars

----------------------------------------------------------------------------

(* enhanced_ocr_preclean on a text with digits directly after a letter     *)

\* the text: what stands before the letter, the letter, the digits, what
\* follows
DigitText(a) == a.before \o <<a.letter>> \o a.digits \o a.after

CallPrecleanDigits ==
    /\ pc = "call"
    /\ ret' = enhanced_ocr_preclean(DigitText(arg))
    /\ pc' = "digits_done"
    /\ UNCHANGED <<moduleVars, renamerVars, arg, docVars, folderVars>>

MaxBeforeLen == 3
MaxAfterLen == 2
\* the digits after the letter are the only 2s and 3s of the text
MarkDigits == {"2", "3"}
BeforeChars == {"a", ".", " ", "1", "*", NL}
AfterChars == {"a", "A", ".", " ", "-", NL}
InitDigits ==
    /\ pc = "call"
    /\ zipfHigh = {}
    /\ module_header_patterns = HEADER_PATTERNS
    /\ RenamerIdle
    /\ arg \in [before : SeqsUpTo(BeforeChars, MaxBeforeLen),
                letter : {"d", "B"},
                digits : {<<"2">>, <<"2", "3">>},
                after : SeqsUpTo(AfterChars, MaxAfterLen)]
    /\ ret = << >>
    /\ DocIdle /\ FolderIdle
NextDigits == CallPrecleanDigits
SpecDigits == InitDigits /\ [][NextDigits]_vars

----------------------------------------------------------------------------

(* detect_repetitive_headers of english_cleaner.py and of urdu_cleaner.py  *)
(* on their own                                                            *)

CallDetectHeaders ==
    /\ pc = "call"
    /\ ret' = detect_repetitive_headers(arg.paragraphs, arg.min_repeats)
    /\ pc' = "en_detected"
    /\ UNCHANGED <<moduleVars, renamerVars, arg, docVars, folderVars>>

CallUrduDetectHeaders ==
    /\ pc = "call"
    /\ ret' = urdu_detect_repetitive_headers(arg.paragraphs, arg.min_repeats)
    /\ pc' = "ur_detected"
    /\ UNCHANGED <<moduleVars, renamerVars, arg, docVars, folderVars>>

MaxDetectParas == 4
MaxMinRepeats == 3
DetectPool ==
    { <<"T", "o", "p">>,
      <<" ", "T", "o", "p", " ">>,
      <<"c", "a", "t">>,
      <<"1", "A", "b", "c">>,
      <<"(", "4", ")">>,
      <<"-", "-", "7", "-", "-">>,
      <<ALEF, ALEF>>,
      <<"A", "b", "c", " ", ALEF>> }
InitDetect ==
    /\ pc = "call"
    /\ zipfHigh = {}
    /\ module_header_patterns = HEADER_PATTERNS
    /\ RenamerIdle
    /\ arg \in [paragraphs : SeqsUpTo(DetectPool, MaxDetectParas),
                min_repeats : 1..MaxMinRepeats]
    /\ ret = << >>
    /\ DocIdle /\ FolderIdle
NextDetect == CallDetectHeaders \/ CallUrduDetectHeaders
SpecDetect == InitDetect /\ [][NextDetect]_vars

----------------------------------------------------------------------------

(* process_folder of english_cleaner.py and of urdu_cleaner.py (the same    *)
(* code).  A file is [root, dir, name]: the root it lies under, its         *)
(* directory relative to that root and its name.                            *)

LockPrefix == <<"~", "$">>
CleanedMarker == <<".", "c", "l", "e", "a", "n", "e", "d">>
DocxSuffix == <<".", "d", "o", "c", "x">>

StartsWith(s, pre) == LitAt(s, 1, pre)
EndsWith(s, suf) ==
    Len(s) >= Len(suf) /\ LitAt(s, Len(s) - Len(suf) + 1, suf)

\* Path.stem: the name without its last suffix; a dot that leads or ends the
\* name starts no suffix
PathStem(name) ==
    LET dots == {i \in 1..Len(name) : name[i] = "."}
        i == IF dots = {} THEN 0 ELSE CHOOSE d \in dots : \A e \in dots : e <= d
    IN  IF i > 1 /\ i < Len(name) THEN SubSeq(name, 1, i - 1) ELSE name

\* root.rglob("*.docx")
DocxGlob(f) == EndsWith(f.name, DocxSuffix)
\* neither "continue" of the loop is taken
Eligible(f) ==
    /\ ~StartsWith(f.name, LockPrefix)
    /\ ~EndsWith(PathStem(f.name), CleanedMarker)
\* (output_root / rel_path).with_name(f"{out_file.stem}.cleaned.docx")
OutFile(f) ==
    [root |-> IF same_root THEN "root" ELSE "output_root",
     dir |-> f.dir,
     name |-> PathStem(f.name) \o CleanedMarker \o DocxSuffix]

\* the exception leaves the loop
Propagate(f) == "raised"

\* "except Exception as e: print(...)": the loop goes on
OnException(f) == "walking"

\* "if not root.exists(): raise FileNotFoundError(root)"
RootMissing ==
    /\ pc = "folder"
    /\ ~root_exists
    /\ pc' = "raised"
    /\ UNCHANGED <<moduleVars, renamerVars, callVars, docVars, folderVars>>

\* the walk starts: rglob yields the .docx files under the root
StartWalk ==
    /\ pc = "folder"
    /\ root_exists
    /\ listing' = {f \in tree : DocxGlob(f)}
    /\ pc' = "walking"
    /\ UNCHANGED <<moduleVars, renamerVars, callVars, docVars, track, root_exists, same_root,
                   tree, visited, attempts, failed, written>>

\* a lock file or a cleaned output is passed over
SkipFile(f) ==
    /\ pc = "walking"
    /\ f \in listing
    /\ ~Eligible(f)
    /\ listing' = listing \ {f}
    /\ visited' = visited \cup {f}
    /\ UNCHANGED <<pc, moduleVars, renamerVars, callVars, docVars, track, root_exists,
                   same_root, tree, attempts, failed, written>>

\* process_docx_file returns: the output is written.  Written under the root
\* that is being walked, the walk may still come to yield it (seen).
ProcessFile(f, seen) ==
    /\ pc = "walking"
    /\ f \in listing
    /\ Eligible(f)
    /\ attempts' = Append(attempts, f)
    /\ visited' = visited \cup {f}
    /\ written' = written \cup {OutFile(f)}
    /\ tree' = IF same_root THEN tree \cup {OutFile(f)} ELSE tree
    /\ listing' = (listing \ {f}) \cup
                      (IF same_root /\ seen /\ OutFile(f) \notin visited
                       THEN {OutFile(f)} ELSE {})
    /\ UNCHANGED <<pc, moduleVars, renamerVars, callVars, docVars, track, root_exists,
                   same_root, failed>>

\* process_docx_file raises
ProcessFileRaises(f) ==
    /\ pc = "walking"
    /\ f \in listing
    /\ Eligible(f)
    /\ attempts' = Append(attempts, f)
    /\ visited' = visited \cup {f}
    /\ failed' = failed \cup {f}
    /\ listing' = listing \ {f}
    /\ pc' = OnException(f)
    /\ UNCHANGED <<moduleVars, renamerVars, callVars, docVars, track, root_exists, same_root,
                   tree, written>>

\* the walk is over
Return ==
    /\ pc = "walking"
    /\ listing = {}
    /\ pc' = "returned"
    /\ UNCHANGED <<moduleVars, renamerVars, callVars, docVars, folderVars>>

MaxFiles == 3
FileNames ==
    { <<"a", ".", "d", "o", "c", "x">>, <<"~", "$", "a", ".", "d", "o", "c", "x">>, <<"a", ".", "c", "l", "e", "a", "n", "e", "d", ".", "d", "o", "c", "x">>, <<".", "d", "o", "c", "x">>, <<".", "d", "o", "c", "x", ".", "d", "o", "c", "x">>, <<"a", ".", "t", "x", "t">> }
FilePool ==
    {[root |-> "root", dir |-> "", name |-> n] : n \in FileNames}
        \cup {[root |-> "root", dir |-> "d", name |-> <<"a", ".", "d", "o", "c", "x">>]}

InitFolder ==
    /\ pc = "folder"
    /\ zipfHigh = {}
    /\ module_header_patterns = HEADER_PATTERNS
    /\ RenamerIdle
    /\ CallIdle /\ DocIdle
    /\ track \in {"english", "urdu"}
    /\ root_exists \in BOOLEAN
    /\ same_root \in BOOLEAN
    /\ tree \in {t \in SUBSET FilePool : Cardinality(t) <= MaxFiles}
    /\ ~root_exists => tree = {} /\ ~same_root
    /\ listing = {} /\ visited = {}
    /\ attempts = << >> /\ failed = {} /\ written = {}
NextFolder ==
    \/ RootMissing
    \/ StartWalk
    \/ \E f \in listing : SkipFile(f)
    \/ \E f \in listing, seen \in BOOLEAN : ProcessFile(f, seen)
    \/ \E f \in listing : ProcessFileRaises(f)
    \/ Return
\* the loop is sequential code: it always takes its next step
SpecFolder == InitFolder /\ [][NextFolder]_vars /\ WF_vars(NextFolder)

----------------------------------------------------------------------------
(* Claims about process_docx_file.                                          *)

\* the paragraphs left of the header line h of the document
LeftOfHeader(h) ==
    {k \in 1..Len(cleaned_paras) : Strip(paras[origin[k]]) = h}

\* C2: after the header-removal stage at most one paragraph that came from a
\* detected header line (a line with 3 or more raw occurrences) is left,
\* whatever the scrub did to its text.
HeaderDedupEndToEnd ==
    pc = "headers_removed" =>
        \A h \in detected_headers : Cardinality(LeftOfHeader(h)) <= 1

\* C2, the case: a detected header line of which every copy is still there
HeaderCopiesSurvive ==
    /\ pc = "headers_removed"
    /\ \E h \in detected_headers : Cardinality(LeftOfHeader(h)) >= 3

\* the content of a paragraph list up to whitespace normalization
ContentOf(ps) ==
    LET keep == SelectIdx(ps, LAMBDA k : ~IsBlank(ps[k]))
    IN  [j \in 1..Len(keep) |-> NormWs(ps[keep[j]])]
\* the content of the document between the passes
DocContent ==
    IF pc \in {"soft_merged", "hyphen_merged"}
    THEN ContentOf(SplitNN(cleaned_text))
    ELSE ContentOf(cleaned_paras)
\* a step that is a whole pass over the paragraph list
IsListPass ==
    \/ pc = "clean" /\ pc' = "headers_removed"
    \/ pc \in {"headers_removed", "soft_merged", "hyphen_merged"}

\* C3: with auditing on, every pass (the scrub of a paragraph, header
\* removal, soft-split merge, hyphen-line merge, broken-word merge) that
\* changes content by more than whitespace normalization appends an audit
\* record.
EveryMutationAudited ==
    [][audit =>
         /\ (pc = "hyphens_fixed"
                /\ NormWs(paras[idx]) # NormWs(cleaned_paras'[Len(cleaned_paras')]))
              => Len(audit_rows') > Len(audit_rows)
         /\ (IsListPass /\ DocContent # DocContent')
              => Len(audit_rows') > Len(audit_rows)]_vars

\* C3, the case: a merge pass has joined two paragraphs and no row was written
MergedWithoutRecord ==
    /\ audit
    /\ pc = "soft_merged"
    /\ ContentOf(cleaned_paras) # ContentOf(SplitNN(cleaned_text))
    /\ audit_rows = << >>

\* the characters of the paragraphs, and of the Unicode-normalized input
CharsOf(ps) == UNION {Range(ps[k]) : k \in 1..Len(ps)}
NormalizedInputChars ==
    UNION {Range(normalize_unicode_and_spaces(paras[k])) : k \in 1..Len(paras)}

\* C4 (amended): every character of the output of the cleaning pipeline
\* occurs in the Unicode-normalized input, except the em-dash, the space,
\* the period, the colon of a rewritten clock time and the straight
\* apostrophe that replaces a curly single quote.
OnlyListedCharactersInserted ==
    pc = "merged" =>
        CharsOf(cleaned_paras) \subseteq
            NormalizedInputChars \cup {EMDASH, " ", ".", ":", "'"}

\* C4 as stated: the em-dash, the space and the period are the only
\* characters the pipeline inserts.
OnlyDashSpacePeriodInserted ==
    pc = "merged" =>
        CharsOf(cleaned_paras) \subseteq
            NormalizedInputChars \cup {EMDASH, " ", "."}

\* C4, the case: the output holds a colon and an apostrophe the input had not
ColonAndApostropheInserted ==
    /\ pc = "merged"
    /\ {":", "'"} \subseteq CharsOf(cleaned_paras) \ NormalizedInputChars

\* C5: each stage is entered from the stage the specification puts before
\* it: within the cleaning of a paragraph Unicode normalization, then dash
\* normalization, then the scrub; then header removal, the soft-split, the
\* hyphen-line and the broken-word merge, styling, done.
StagesInSpecifiedOrder ==
    [][/\ pc' = "unicode_normalized" => pc = "clean"
       /\ pc' = "dashes_normalized" => pc = "unicode_normalized"
       /\ pc' = "hyphens_fixed" => pc = "dashes_normalized"
       /\ pc' = "headers_removed" => pc = "clean"
       /\ pc' = "soft_merged" => pc = "headers_removed"
       /\ pc' = "hyphen_merged" => pc = "soft_merged"
       /\ pc' = "merged" => pc = "hyphen_merged"
       /\ pc' = "styled" => pc = "merged"
       /\ pc' = "done" => pc = "styled"]_vars

\* C5, the case: both normalizations are done and the text is not what
\* Unicode normalization followed by dash normalization gives
NormalizedOutOfOrder ==
    /\ pc = "unicode_normalized"
    /\ cur_text # normalize_em_dashes(normalize_unicode_and_spaces(paras[idx]))

----------------------------------------------------------------------------
(* collect_and_rename_cleaned_files of renamer.py.  An entry under          *)
(* source_root is [dir, name, kind]; output_dir, which lies outside         *)
(* source_root as in app.py, is a function from names to [kind, data], the  *)
(* data of a copy being the path of the file it was copied from.            *)

\* Path.suffix: the last suffix; a dot that leads or ends the name starts none
PathSuffix(name) ==
    LET dots == {i \in 1..Len(name) : name[i] = "."}
        i == IF dots = {} THEN 0 ELSE CHOOSE d \in dots : \A e \in dots : e <= d
    IN  IF i > 1 /\ i < Len(name) THEN SubSeq(name, i, Len(name)) ELSE << >>

\* str(counter)
DecimalDigits == <<"0", "1", "2", "3", "4", "5", "6", "7", "8", "9">>
RECURSIVE str(_)
str(n) ==
    IF n < 10 THEN <<DecimalDigits[n + 1]>>
    ELSE str(n \div 10) \o <<DecimalDigits[(n % 10) + 1]>>

\* s.replace(".cleaned", "")
CleanedAt(t, i) ==
    IF LitAt(t, i, CleanedMarker) THEN i + Len(CleanedMarker) ELSE 0
RemoveCleaned(name) == ReSub(name, CleanedAt, Nothing)

\* file_path.is_file() and ".cleaned" in file_path.stem
IsCleanedFile(f) ==
    f.kind = "file" /\ Occurs(CleanedMarker, PathStem(f.name))

\* a path that never exists
NeverExists(entries, name) == FALSE
\* target_path.exists(): the empty name is output_dir itself
TargetExists(entries, name) == name = << >> \/ name \in DOMAIN entries

\* f"{file_path.stem.replace('.cleaned','')}_{counter}{file_path.suffix}"
CollisionName(f, n) ==
    RemoveCleaned(PathStem(f.name)) \o <<"_">> \o str(n) \o PathSuffix(f.name)

\* shutil.copy2(file_path, target_path): the target is written, new or not
copy2(entries, f, name) ==
    [n \in DOMAIN entries \cup {name} |->
        IF n = name THEN [kind |-> "file", data |-> <<f.dir, f.name>>]
        ELSE entries[n]]

\* output_dir.mkdir(parents=True, exist_ok=True)
RenamerMkdir ==
    /\ pc = "rename"
    /\ pc' = "rename_walk"
    /\ UNCHANGED <<moduleVars, renamerVars, callVars, docVars, folderVars>>

\* rglob yields an entry that is a file with ".cleaned" in its stem
RenamerCleanedFile ==
    /\ pc = "rename_walk"
    /\ \E f \in source_entries \ yielded :
        /\ IsCleanedFile(f)
        /\ yielded' = yielded \cup {f}
        /\ file_path' = f
        /\ target_path' = RemoveCleaned(f.name)
        /\ counter' = 1
    /\ pc' = "rename_target"
    /\ UNCHANGED <<moduleVars, callVars, docVars, folderVars, source_entries,
                   output_before, output_entries>>

\* rglob yields any other entry
RenamerOtherEntry ==
    /\ pc = "rename_walk"
    /\ \E f \in source_entries \ yielded :
        /\ ~IsCleanedFile(f)
        /\ yielded' = yielded \cup {f}
        /\ file_path' = f
    /\ UNCHANGED <<pc, moduleVars, callVars, docVars, folderVars,
                   source_entries, output_before, output_entries,
                   target_path, counter>>

\* "while target_path.exists()": the next name is tried
RenamerNameCollision ==
    /\ pc = "rename_target"
    /\ TargetExists(output_entries, target_path)
    /\ target_path' = CollisionName(file_path, counter)
    /\ counter' = counter + 1
    /\ UNCHANGED <<pc, moduleVars, callVars, docVars, folderVars,
                   source_entries, output_before, output_entries, yielded,
                   file_path>>

\* the loop left, the file copied
RenamerCopy ==
    /\ pc = "rename_target"
    /\ ~TargetExists(output_entries, target_path)
    /\ output_entries' = copy2(output_entries, file_path, target_path)
    /\ pc' = "rename_walk"
    /\ UNCHANGED <<moduleVars, callVars, docVars, folderVars, source_entries,
                   output_before, yielded, file_path, target_path, counter>>

\* rglob exhausted
RenamerDone ==
    /\ pc = "rename_walk"
    /\ yielded = source_entries
    /\ pc' = "renamed"
    /\ UNCHANGED <<moduleVars, renamerVars, callVars, docVars, folderVars>>

MaxSourceEntries == 4
SourceDirs == {"", "d", "e"}
CleanedDocx == <<"a">> \o CleanedMarker \o DocxSuffix
SourcePool ==
    {[dir |-> d, name |-> CleanedDocx, kind |-> "file"] : d \in SourceDirs}
        \cup {[dir |-> "", name |-> <<"a">> \o DocxSuffix, kind |-> "file"],
              [dir |-> "", name |-> <<"a">> \o CleanedMarker, kind |-> "file"],
              [dir |-> "", name |-> CleanedMarker, kind |-> "file"],
              [dir |-> "", name |-> <<"d">> \o CleanedMarker \o <<".", "x">>,
               kind |-> "dir"]}
PriorPool ==
    { <<"a">> \o DocxSuffix,
      <<"a", "_", "1">> \o DocxSuffix,
      <<"a", "_", "2">> \o DocxSuffix }
PriorEntry(name) ==
    [kind |-> IF name = <<"a", "_", "1">> \o DocxSuffix THEN "dir" ELSE "file",
     data |-> "prior"]

InitRenamer ==
    /\ pc = "rename"
    /\ zipfHigh = {}
    /\ module_header_patterns = HEADER_PATTERNS
    /\ source_entries \in {S \in SUBSET SourcePool :
                              Cardinality(S) <= MaxSourceEntries}
    /\ output_before \in {[n \in N |-> PriorEntry(n)] : N \in SUBSET PriorPool}
    /\ output_entries = output_before
    /\ yielded = {} /\ file_path = << >> /\ target_path = << >> /\ counter = 0
    /\ CallIdle /\ DocIdle /\ FolderIdle
NextRenamer ==
    \/ RenamerMkdir \/ RenamerCleanedFile \/ RenamerOtherEntry
    \/ RenamerNameCollision \/ RenamerCopy \/ RenamerDone
SpecRenamer == InitRenamer /\ [][NextRenamer]_vars

----------------------------------------------------------------------------

(* Claims about remove_known_headers.                                       *)

\* the subsequence of ps at the indexes K, in order
SubsequenceAt(ps, K) ==
    [j \in 1..Cardinality(K) |->
        ps[CHOOSE k \in K : Cardinality({m \in K : m < k}) = j - 1]]
\* the indexes the claim keeps: every paragraph that is not a header, and of
\* each trimmed header string the first occurrence
FirstOccurrences(ps, IsHeader(_)) ==
    {k \in 1..Len(ps) :
        IsHeader(Strip(ps[k]))
            => \A j \in 1..(k - 1) : Strip(ps[j]) # Strip(ps[k])}
EnglishHeader(s) ==
    s \in arg.headers \/ \E pat \in arg.header_patterns : PatMatch(pat, s)
UrduHeader(s) == s \in arg.headers

\* C1: remove_known_headers (English and Urdu) returns the subsequence of
\* its input in which of each trimmed string that is a detected header (or,
\* in English, matches a header pattern) exactly the first occurrence is
\* kept, and every paragraph that is not a header is kept unchanged.
FirstHeaderOccurrenceKept ==
    /\ pc = "en_done" =>
          ret.filtered = SubsequenceAt(arg.paragraphs,
                             FirstOccurrences(arg.paragraphs, EnglishHeader))
    /\ pc = "ur_done" =>
          ret.filtered = SubsequenceAt(arg.paragraphs,
                             FirstOccurrences(arg.paragraphs, UrduHeader))

\* C1, the case: a detected header stands three times among four paragraphs
\* and the call returns two paragraphs
RepeatedHeaderDropped ==
    /\ pc \in {"en_done", "ur_done"}
    /\ Len(arg.paragraphs) = 4
    /\ \E h \in arg.headers :
           Cardinality({k \in 1..4 : Strip(arg.paragraphs[k]) = h}) = 3
    /\ Len(ret.filtered) = 2

----------------------------------------------------------------------------
(* Claims about process_folder.                                             *)

Occurrences(f) == {i \in 1..Len(attempts) : attempts[i] = f}
EligibleInputs == {f \in tree : DocxGlob(f) /\ Eligible(f)}

\* C6: in process_folder of either track, whichever documents raise, the
\* walk is never aborted by a document, no document is attempted twice, and
\* the call returns with every eligible document attempted exactly once.
FailuresDoNotAbortTheBatch ==
    /\ [](root_exists => pc # "raised")
    /\ [](\A f \in Range(attempts) : Cardinality(Occurrences(f)) = 1)
    /\ <>[](root_exists =>
              /\ pc = "returned"
              /\ \A f \in EligibleInputs : Cardinality(Occurrences(f)) = 1)

\* C6, the case: process_folder has returned, a document raised and a
\* document after it was processed
ProcessedAfterAFailure ==
    /\ pc = "returned"
    /\ \E i, j \in 1..Len(attempts) :
           /\ i < j
           /\ attempts[i] \in failed
           /\ attempts[j] \notin failed
           /\ OutFile(attempts[j]) \in written

\* the output path of the claim for the input f
CleanedPathOf(f) ==
    [root |-> IF same_root THEN "root" ELSE "output_root",
     dir |-> f.dir,
     name |-> PathStem(f.name) \o CleanedMarker \o DocxSuffix]

\* C7: process_folder processes exactly the .docx files whose name does not
\* start with "~$" and whose stem does not end with ".cleaned", writes each
\* to <stem>.cleaned.docx in the same relative directory of the output
\* root, never takes a cleaned output as an input, and no two distinct
\* inputs map to the same output path.
InputsAndOutputPaths ==
    pc = "returned" =>
        /\ Range(attempts) =
               {f \in tree : /\ EndsWith(f.name, DocxSuffix)
                             /\ ~StartsWith(f.name, LockPrefix)
                             /\ ~EndsWith(PathStem(f.name), CleanedMarker)}
        /\ written = {CleanedPathOf(f) : f \in Range(attempts) \ failed}
        /\ Range(attempts) \cap written = {}
        /\ \A f, g \in Range(attempts) :
               f # g => CleanedPathOf(f) # CleanedPathOf(g)

\* C7, the case: two documents were processed and one output was written
TwoInputsOneOutput ==
    /\ pc = "returned"
    /\ failed = {}
    /\ Len(attempts) = 2
    /\ Cardinality(written) = 1

----------------------------------------------------------------------------
(* Claims about fix_ocr_hyphenated_words.                                   *)

\* the Lexical Oracle of the claim: the frequency reaches the threshold, or
\* the word is on the allow-list
PassesOracle(w) == is_word(ToLower(w)) \/ ToLower(w) \in custom_words

\* C8: letters1 + "-" + whitespace + letters2 becomes letters1letters2 if
\* the concatenation passes the Lexical Oracle (frequency or allow-list),
\* and letters1-letters2 otherwise.
HyphenRepairFollowsOracle ==
    pc = "hyph_done" =>
        \A w1 \in HyphFirst, g \in HyphGaps, w2 \in HyphSecond :
            arg = w1 \o <<"-">> \o g \o w2 =>
                ret = IF PassesOracle(w1 \o w2) THEN w1 \o w2
                      ELSE w1 \o <<"-">> \o w2

\* C8, the case: a word of the allow-list that the frequency table does not
\* hold was repaired and has kept its hyphen
AllowListedWordKeepsHyphen ==
    /\ pc = "hyph_done"
    /\ \E w1 \in HyphFirst, g \in HyphGaps, w2 \in HyphSecond :
           /\ arg = w1 \o <<"-">> \o g \o w2
           /\ ToLower(w1 \o w2) \in custom_words \ zipfHigh
           /\ ret = w1 \o <<"-">> \o w2

----------------------------------------------------------------------------
(* Claims about merge_broken_words.                                         *)

\* junk: pure digits, a bracketed number, or dashes only
JunkParagraph(p) ==
    LET n == Len(p)
    IN  /\ n >= 1
        /\ \/ \A k \in 1..n : p[k] \in DigitU
           \/ n >= 3 /\ p[1] = "[" /\ p[n] = "]"
                /\ \A k \in 2..(n - 1) : p[k] \in DigitU
           \/ \A k \in 1..n : p[k] \in DashCh
\* the paragraph ends in letters followed by "-"
EndsInLettersHyphen(t) ==
    LET e == Len(RStrip(t))
    IN  e >= 2 /\ t[e] = "-" /\ t[e - 1] \in Letter
\* prefix + word1 + first token of nxt + " " + the remaining tokens of nxt
JoinedAtHyphen(t, nxt) ==
    LET toks == SplitWS(nxt)
    IN  SubSeq(t, 1, Len(RStrip(t)) - 1)
            \o (IF toks = << >> THEN << >> ELSE toks[1])
            \o <<" ">>
            \o (IF toks = << >> THEN << >> ELSE JoinSp(Tail(toks)))
\* The paragraph formed from paragraph a by the merges up to paragraph b
\* (ok: every paragraph between is skipped junk or was merged in turn), and
\* whether a further merge is due.
MergeGroups(ps) ==
    LET n == Len(ps)
        NonJunk(k) == ~JunkParagraph(Strip(ps[k]))
        G[a \in 1..n, b \in 1..n] ==
            IF b < a THEN [ok |-> FALSE, text |-> << >>]
            ELSE IF b = a THEN [ok |-> TRUE, text |-> RStrip(ps[a])]
            ELSE IF ~NonJunk(b) THEN [ok |-> FALSE, text |-> << >>]
            ELSE LET prevs == {a} \cup {c \in (a + 1)..(b - 1) : NonJunk(c)}
                     c == CHOOSE x \in prevs : \A y \in prevs : y <= x
                 IN  IF G[a, c].ok /\ EndsInLettersHyphen(G[a, c].text)
                     THEN [ok |-> TRUE,
                           text |-> JoinedAtHyphen(G[a, c].text, Strip(ps[b]))]
                     ELSE [ok |-> FALSE, text |-> << >>]
    IN  G
BrokenWordsMerged(ps, out) ==
    LET n == Len(ps)
        G == MergeGroups(ps)
        Due(a, b) == /\ EndsInLettersHyphen(G[a, b].text)
                     /\ \E c \in (b + 1)..n : ~JunkParagraph(Strip(ps[c]))
    IN  \E E \in SUBSET (1..n) :
            /\ n > 0 => n \in E
            /\ Cardinality(E) = Len(out)
            /\ \A b \in E :
                   LET j == Cardinality({x \in E : x <= b})
                       before == {x \in E : x < b}
                       a == IF before = {} THEN 1
                            ELSE 1 + CHOOSE x \in before : \A y \in before : y <= x
                   IN  G[a, b].ok /\ ~Due(a, b) /\ out[j] = G[a, b].text

\* C9: merge_broken_words merges a paragraph ending in letters and "-" with
\* the next paragraph that is not junk into prefix + word1 + its first token
\* + " " + its remaining tokens, drops the junk skipped and the paragraph
\* consumed, repeats while the new end still matches, and returns every
\* other paragraph once and in order.
BrokenWordMergedWithNextNonJunk ==
    pc = "broken_done" => BrokenWordsMerged(arg.paragraphs, ret.merged)

\* C9, the case: the next paragraph that is not junk is blank, and the
\* paragraph before it has kept its hyphen
BlankParagraphStopsMerge ==
    /\ pc = "broken_done"
    /\ Len(arg.paragraphs) = 3
    /\ EndsInLettersHyphen(arg.paragraphs[1])
    /\ Strip(arg.paragraphs[2]) = << >>
    /\ Strip(arg.paragraphs[3]) # << >>
    /\ ~JunkParagraph(Strip(arg.paragraphs[3]))
    /\ ret.merged[1] = arg.paragraphs[1]

----------------------------------------------------------------------------
(* Claims about merge_soft_split_paragraphs_text.                           *)

\* the paragraphs of the input, trimmed, the blank ones left out
TrimmedParagraphs(ps) ==
    LET keep == SelectIdx(ps, LAMBDA k : Strip(ps[k]) # << >>)
    IN  [j \in 1..Len(keep) |-> Strip(ps[keep[j]])]
\* the boundary between P[k] and P[k + 1] is a soft split
SoftBoundary(P, k) == P[k][Len(P[k])] \in Lower /\ P[k + 1][1] \in Lower
\* P with exactly the soft-split boundaries replaced by a single space, each
\* paragraph formed passed through Finish
SoftBoundariesJoined(P, Finish(_)) ==
    LET starts == {k \in 1..Len(P) : k = 1 \/ ~SoftBoundary(P, k - 1)}
        StartNo(j) == CHOOSE k \in starts : Cardinality({x \in starts : x < k}) = j - 1
        EndNo(j) == IF j = Cardinality(starts) THEN Len(P) ELSE StartNo(j + 1) - 1
    IN  [j \in 1..Cardinality(starts) |->
            Finish(JoinSp(SubSeq(P, StartNo(j), EndNo(j))))]
AsIs(p) == p

\* C10 (amended): the output of merge_soft_split_paragraphs_text is the
\* trimmed non-blank paragraphs of the input, in order, with exactly the
\* boundaries replaced by a single space where the paragraph formed so far
\* ends in a lowercase letter and the next begins with one, and with every
\* run of whitespace inside a paragraph collapsed to one space; no two
\* adjacent paragraphs of the output satisfy the condition.
SoftSplitsJoinedAndNormalized ==
    pc = "soft_done" =>
        LET out == SoftBoundariesJoined(TrimmedParagraphs(arg.paragraphs), NormWs)
        IN  /\ ret = JoinNN(out)
            /\ \A k \in 1..(Len(out) - 1) : ~SoftBoundary(out, k)

\* C10 as stated: the output is the input with exactly those boundaries
\* replaced by a single space, and nothing else changed.
SoftSplitsJoinedOnly ==
    pc = "soft_done" =>
        ret = JoinNN(SoftBoundariesJoined(TrimmedParagraphs(arg.paragraphs), AsIs))

\* C10, the case: three paragraphs, the first two joined at a soft split,
\* the third left apart, and whitespace inside the joined paragraph collapsed
SoftSplitJoinedAndCollapsed ==
    /\ pc = "soft_done"
    /\ Len(TrimmedParagraphs(arg.paragraphs)) = 3
    /\ Len(SplitNN(ret)) = 2
    /\ SoftBoundary(TrimmedParagraphs(arg.paragraphs), 1)
    /\ ret # JoinNN(SoftBoundariesJoined(TrimmedParagraphs(arg.paragraphs), AsIs))

----------------------------------------------------------------------------
(* Claims about merge_paragraphs_split_by_hyphen.                           *)

\* paragraph k of P consists solely of "-" and has a paragraph before it
HyphenMarker(P, k) == k > 1 /\ P[k] = <<"-">>
\* P with every hyphen marker joined to the paragraph before it and to the
\* paragraph after it, " " between, each paragraph whitespace-normalized
HyphenMarkersJoined(P) ==
    LET n == Len(P)
        starts == {k \in 1..n :
                      k = 1 \/ (~HyphenMarker(P, k) /\ ~HyphenMarker(P, k - 1))}
        StartNo(j) == CHOOSE k \in starts : Cardinality({x \in starts : x < k}) = j - 1
        EndNo(j) == IF j = Cardinality(starts) THEN n ELSE StartNo(j + 1) - 1
    IN  [j \in 1..Cardinality(starts) |->
            NormWs(JoinSp(SubSeq(P, StartNo(j), EndNo(j))))]

\* C11: merge_paragraphs_split_by_hyphen removes every paragraph that is
\* solely "-" and has a paragraph before it, joins the paragraphs before
\* and after it with " - " between them, and leaves the other paragraphs
\* as they are up to whitespace normalization, in order.
HyphenMarkersJoinNeighbours ==
    pc = "hyphen_line_done" =>
        ret = JoinNN(HyphenMarkersJoined(TrimmedParagraphs(arg.paragraphs)))

\* C11, the case: two hyphen-only paragraphs in a row, and the paragraph
\* after them is still a paragraph of its own
ParagraphAfterTwoMarkersApart ==
    /\ pc = "hyphen_line_done"
    /\ arg.paragraphs = << <<"a">>, <<"-">>, <<"-">>, <<"d", ".">> >>
    /\ SplitNN(ret) = << <<"a", " ", "-", " ", "-">>, <<"d", ".">> >>

----------------------------------------------------------------------------
(* Claims about running a paragraph merger twice.                           *)

\* the whitespace of p is single spaces between other characters
SingleSpaced(p) ==
    /\ \A k \in 1..Len(p) : p[k] \in WS => p[k] = " "
    /\ \A k \in 1..(Len(p) - 1) : ~(p[k] = " " /\ p[k + 1] = " ")
    /\ p # << >> => p[1] # " " /\ p[Len(p)] # " "

----------------------------------------------------------------------------
\* C13: normalize_unicode_and_spaces and normalize_em_dashes are idempotent:
\* applied to its own output, each returns that output unchanged
NormalizersIdempotent ==
    pc \in {"unicode_twice", "dashes_twice"} => ret.twice = ret.once
\* each normalizer has changed a text, and a second application of it
\* changes nothing more
NormalizedTextNormalizedAgain ==
    \/ /\ pc = "unicode_twice"
       /\ arg = <<"a", " ", ZWSP, " ", "a">>
       /\ ret.once = <<"a", " ", "a">>
       /\ ret.twice = ret.once
    \/ /\ pc = "dashes_twice"
       /\ arg = <<"a", " ", "-", "-", "a">>
       /\ ret.once = <<"a", EMDASH, "a">>
       /\ ret.twice = ret.once

----------------------------------------------------------------------------
\* the base steps in the order of the specification: the zero-width
\* characters are stripped, then the runs of horizontal whitespace collapsed
ZeroWidthStrippedFirst(text) ==
    LET t1 == MapCh(text, UrduNbspToSpace)
        t2 == DropCh(t1, ZeroWidth)
        t3 == ReSub(t2, CrLfEnd, OneNL)
        t4 == ReSub(t3, HSpaceRunEnd, OneSpace)
        t5 == ReSub(t4, NL3End, TwoNL)
        t6 == MapCh(t5, UrduPunctuation)
    IN  Strip(t6)
TwoSpaces(text) == \E k \in 1..Len(text) - 1 : text[k] = " " /\ text[k + 1] = " "
\* C14: normalize_urdu_text is idempotent, gives what the base steps give
\* in the specified order (zero-width characters stripped before the
\* horizontal whitespace is collapsed), and never returns two consecutive
\* spaces
UrduNormalizerIdempotentAndOrdered ==
    pc = "urdu_twice" =>
        /\ ret.twice = ret.once
        /\ ret.once = ZeroWidthStrippedFirst(arg)
        /\ ~TwoSpaces(ret.once)
\* a zero-width space between two spaces: the output keeps both spaces, and
\* a second application removes one of them
ZeroWidthBetweenSpaces ==
    /\ pc = "urdu_twice"
    /\ arg = <<ALEF, " ", ZWSP, " ", ALEF>>
    /\ ret.once = <<ALEF, " ", " ", ALEF>>
    /\ ret.twice = <<ALEF, " ", ALEF>>

----------------------------------------------------------------------------
\* A dash sequence of a text: a maximal run of dashes and whitespace with at
\* least one dash in it.  DashSegments cuts a text into its dash sequences
\* and the stretches of other text between them, each with the characters
\* directly before and after it.
DashZoneCh == WS \cup DashCh
InDashZone(t, k) ==
    /\ t[k] \in DashZoneCh
    /\ \E d \in 1..Len(t) :
           /\ t[d] \in DashCh
           /\ \A m \in (IF d < k THEN d ELSE k)..(IF d < k THEN k ELSE d) :
                  t[m] \in DashZoneCh
DashSegments(t) ==
    LET n == Len(t)
        starts == {k \in 1..n : k = 1 \/ InDashZone(t, k) # InDashZone(t, k - 1)}
        StartNo(j) == CHOOSE k \in starts :
                          Cardinality({m \in starts : m <= k}) = j
        EndNo(j) == IF j = Cardinality(starts) THEN n ELSE StartNo(j + 1) - 1
    IN  [j \in 1..Cardinality(starts) |->
            [zone |-> InDashZone(t, StartNo(j)),
             text |-> SubSeq(t, StartNo(j), EndNo(j)),
             left |-> At(t, StartNo(j) - 1),
             right |-> At(t, EndNo(j) + 1)]]
\* C15: normalize_em_dashes changes a dash sequence only when the characters
\* on both sides of it are letters; a single hyphen with no whitespace
\* between two letters, and a dash sequence with a digit or another
\* non-letter on either side, are unchanged, and so is all the text outside
\* the dash sequences
DashesChangedOnlyBetweenLetters ==
    pc = "dashes_done" =>
        LET a == DashSegments(arg)
            r == DashSegments(ret)
        IN  /\ Len(r) = Len(a)
            /\ \A j \in 1..Len(a) :
                   /\ r[j].zone = a[j].zone
                   /\ ~a[j].zone => r[j].text = a[j].text
                   /\ r[j].text # a[j].text =>
                          /\ a[j].left \in Letter
                          /\ a[j].right \in Letter
                          /\ a[j].text # <<"-">>
\* a hyphen after a digit is kept and the double hyphen between two letters
\* after it is converted
DashAfterDigitKeptNextConverted ==
    /\ pc = "dashes_done"
    /\ arg = <<"1", "-", "a", "-", "-", "a">>
    /\ ret = <<"1", "-", "a", EMDASH, "a">>

----------------------------------------------------------------------------
\* C16: every dash sequence that normalize_em_dashes converts is, in the
\* output, a single em-dash with exactly one space on each side
ConvertedDashesSpacedEmDash ==
    pc = "dashes_done" =>
        LET a == DashSegments(arg)
            r == DashSegments(ret)
        IN  \A j \in 1..Len(a) :
                (j <= Len(r) /\ r[j].text # a[j].text) =>
                    r[j].text = <<" ", EMDASH, " ">>
\* a double hyphen between two letters becomes an em-dash with no space on
\* either side
DoubleHyphenBecomesBareEmDash ==
    /\ pc = "dashes_done"
    /\ arg = <<"a", "-", "-", "a">>
    /\ ret = <<"a", EMDASH, "a">>

----------------------------------------------------------------------------
\* C17: a clock time D.DD A.M or D.DD P.M is, in the output of
\* enhanced_ocr_preclean, H:MM followed by the whole marker, whatever
\* follows the time
ClockTimeProtected ==
    pc = "time_done" =>
        Occurs(arg.hour \o <<":">> \o arg.minute \o <<" ">> \o arg.marker, ret)
\* "11.40 A.M" alone: the minute and the end of the marker are gone
ClockTimeLosesMinuteAndMarker ==
    /\ pc = "time_done"
    /\ TimeText(arg) = <<"1", "1", ".", "4", "0", " ", "A", ".", "M">>
    /\ ret = <<"1", "1", ":", " ", "A", ".">>

----------------------------------------------------------------------------
\* C18: enhanced_ocr_preclean removes the digits that directly follow a
\* lowercase letter, and never removes digits that directly follow an
\* uppercase letter
DigitsAfterLowerRemovedAfterUpperKept ==
    pc = "digits_done" =>
        /\ arg.letter \in Lower => Range(ret) \cap MarkDigits = {}
        /\ arg.letter \in Upper => Occurs(arg.digits, ret)
\* "a.B23": the digits after the uppercase letter are removed with it
DigitsAfterUpperRemoved ==
    /\ pc = "digits_done"
    /\ DigitText(arg) = <<"a", ".", "B", "2", "3">>
    /\ ret = <<"a", ".">>

----------------------------------------------------------------------------
\* a paragraph that is purely numeric or a page-number pattern
PageParagraph(p) == IsNumericOnly(Strip(p)) \/ IsPageNumber(Strip(p))
WithoutPageParagraphs(ps) ==
    SubsequenceAt(ps, {k \in 1..Len(ps) : ~PageParagraph(ps[k])})
\* the final paragraph sequence of process_docx_file for the paragraphs ps
FinalParagraphs(ps) ==
    Let(SubsequenceAt(ps, {k \in 1..Len(ps) : ~IsBlank(ps[k])}), LAMBDA nonblank :
    Let([k \in 1..Len(nonblank) |-> ocr_preclean(nonblank[k])] \o << >>,
        LAMBDA cleaned :
    Let(detect_repetitive_headers(ps, 3), LAMBDA headers :
    Let(remove_known_headers(cleaned, headers,
            HEADER_PATTERNS \cup dynamic_header_regex(headers), FALSE).filtered,
        LAMBDA filtered :
    Let(merge_soft_split_paragraphs_text(JoinNN(filtered)), LAMBDA soft :
    Let(merge_paragraphs_split_by_hyphen(soft), LAMBDA text :
        merge_broken_words(NonBlankParagraphs(text), FALSE).merged))))))
\* C19: a purely numeric or page-number paragraph contributes nothing to the
\* final paragraph sequence of process_docx_file: the sequence is the one
\* the document without these paragraphs gives, it has no empty paragraph,
\* and the other paragraphs keep their order
PageParagraphsContributeNothing ==
    pc \in {"merged", "styled", "done"} =>
        /\ cleaned_paras = FinalParagraphs(WithoutPageParagraphs(paras))
        /\ \A k \in 1..Len(cleaned_paras) : Strip(cleaned_paras[k]) # << >>
        /\ pc = "done" =>
               [k \in 1..Len(styled) |-> styled[k].text] = cleaned_paras
\* "cat", "- 42 -", "(4)", "Top": the saved document holds "cat" and "Top"
PageParagraphsDroppedBetweenNeighbours ==
    /\ pc = "done"
    /\ paras = << <<"c", "a", "t">>, <<"-", " ", "4", "2", " ", "-">>,
                  <<"(", "4", ")">>, <<"T", "o", "p">> >>
    /\ [k \in 1..Len(styled) |-> styled[k].text]
           = << <<"c", "a", "t">>, <<"T", "o", "p">> >>

----------------------------------------------------------------------------
\* a paragraph the Urdu removal policy names: numeric-only, a bracketed or
\* parenthesized numeric footnote, or a dash-wrapped page number
UrduPageParagraph(p) ==
    \/ UrduNumericLine(Strip(p))
    \/ UrduPageNumber(Strip(p))
    \/ UrduNumericFootnote(Strip(p))
\* the paragraphs the Urdu process_docx_file writes for the paragraphs ps
UrduFinalParagraphs(ps) ==
    Let(raw_paras(ps), LAMBDA raw :
    Let([k \in 1..Len(raw) |->
            clean_urdu_numeric_artifacts(normalize_urdu_text(raw[k]))] \o << >>,
        LAMBDA cleaned :
    Let(urdu_detect_repetitive_headers(cleaned, 3), LAMBDA headers :
        urdu_remove_known_headers(cleaned, headers, FALSE).filtered)))
\* C20: the paragraphs the Urdu process_docx_file writes hold no paragraph,
\* and no empty paragraph, for a numeric-only, numeric-footnote or
\* page-number paragraph of the input: they are the paragraphs written for
\* the document without these paragraphs
UrduPageParagraphsContributeNothing ==
    pc = "urdu_done" =>
        /\ [k \in 1..Len(styled) |-> styled[k].text]
               = UrduFinalParagraphs(
                     SubsequenceAt(paras,
                         {k \in 1..Len(paras) : ~UrduPageParagraph(paras[k])}))
        /\ \A k \in 1..Len(styled) : styled[k].text # << >>
\* two Urdu digits between two Urdu paragraphs: an empty paragraph is
\* written in their place
UrduEmptyParagraphWritten ==
    /\ pc = "urdu_done"
    /\ paras = << <<ALEF, ALEF>>, <<UDIGIT, UDIGIT>>, <<ALEF, ALEF>> >>
    /\ [k \in 1..Len(styled) |-> styled[k].text]
           = << <<ALEF, ALEF>>, << >>, <<ALEF, ALEF>> >>

----------------------------------------------------------------------------
\* the number of paragraphs whose trimmed text is the line
ExactOccurrences(ps, line) ==
    Cardinality({k \in 1..Len(ps) : Strip(ps[k]) = line})
LatinLetters(line) == Cardinality({k \in 1..Len(line) : line[k] \in Letter})
\* the filters of the English variant and of the Urdu variant
EnglishFilters(line) ==
    /\ ~IsPageNumber(line)
    /\ LatinLetters(line) > 2
    /\ \E k \in 1..Len(line) : line[k] \in Upper
    /\ line[1] \notin DigitU
UrduFilters(line) ==
    /\ ~UrduDecorativeLine(line)
    /\ \E k \in 1..Len(line) : line[k] \in ArabicBlock
RepeatedLines(ps, n, Filters(_)) ==
    {line \in {Strip(ps[k]) : k \in 1..Len(ps)} :
        line # << >> /\ ExactOccurrences(ps, line) >= n /\ Filters(line)}
\* C21: detect_repetitive_headers returns exactly the trimmed lines that
\* occur at least min_repeats times among the paragraphs and pass the
\* filters of its variant; a line that occurs min_repeats - 1 times is not
\* returned, and one that occurs exactly min_repeats times and passes the
\* filters is
DetectedAtOrAboveMinRepeats ==
    /\ pc = "en_detected" =>
           ret = RepeatedLines(arg.paragraphs, arg.min_repeats, EnglishFilters)
    /\ pc = "ur_detected" =>
           ret = RepeatedLines(arg.paragraphs, arg.min_repeats, UrduFilters)
    /\ pc \in {"en_detected", "ur_detected"} =>
           \A k \in 1..Len(arg.paragraphs) :
               LET line == Strip(arg.paragraphs[k])
                   n == ExactOccurrences(arg.paragraphs, line)
               IN  /\ n = arg.min_repeats - 1 => line \notin ret
                   /\ (/\ n = arg.min_repeats
                       /\ IF pc = "en_detected" THEN EnglishFilters(line)
                                                ELSE UrduFilters(line))
                          => line \in ret
\* "Top" three times (once with spaces around it) and "cat" once, with the
\* default threshold: "Top" is detected
LineAtThresholdDetected ==
    /\ pc = "en_detected"
    /\ arg.min_repeats = 3
    /\ arg.paragraphs = << <<"T", "o", "p">>, <<" ", "T", "o", "p", " ">>,
                           <<"c", "a", "t">>, <<"T", "o", "p">> >>
    /\ ret = { <<"T", "o", "p">> }

----------------------------------------------------------------------------
\* C22: whatever documents are processed one after another, the module-level
\* list HEADER_PATTERNS stays as the module defines it, and the paragraphs a
\* document ends with are the ones it gives when processed on its own,
\* whichever documents were processed before it
NoStateSharedAcrossDocuments ==
    /\ module_header_patterns = HEADER_PATTERNS
    /\ pc = "done" => cleaned_paras = FinalParagraphs(paras)
\* after a document in which "Top" is a header, a document with "Top" twice
\* keeps both
HeaderOfEarlierDocumentKept ==
    /\ pc = "done"
    /\ attempts = << << <<"T", "o", "p">>, <<"T", "o", "p">>,
                        <<"T", "o", "p">> >> >>
    /\ paras = << <<"c", "a", "t">>, <<"T", "o", "p">>, <<"T", "o", "p">> >>
    /\ cleaned_paras = paras

----------------------------------------------------------------------------
\* C23: every paragraph of the new document is justified, and every
\* paragraph shorter than 60 characters has all of its runs bold at 14pt,
\* whether or not the misspelling highlighter rebuilt its runs
FormattingSurvivesHighlighting ==
    pc \in {"styled", "done"} =>
        \A k \in 1..Len(styled) :
            /\ styled[k].alignment = "JUSTIFY"
            /\ Len(styled[k].text) < 60 =>
                   \A j \in 1..Len(styled[k].runs) :
                       /\ styled[k].runs[j].bold
                       /\ styled[k].runs[j].size = "14pt"
\* the heading "word", a word the oracle does not know: the paragraph is
\* rebuilt as one highlighted run between two empty ones, none of them bold,
\* and its alignment is gone
HeadingRebuiltWithoutFormatting ==
    /\ pc = "done"
    /\ zipfHigh = {}
    /\ paras = << <<"w", "o", "r", "d">> >>
    /\ Len(styled) = 1
    /\ styled[1].alignment = "NONE"
    /\ Len(styled[1].runs) = 3
    /\ styled[1].runs[2] = [text |-> <<"w", "o", "r", "d">>, bold |-> FALSE,
                            size |-> "inherited", highlight |-> TRUE]

----------------------------------------------------------------------------
\* C24: collect_and_rename_cleaned_files never overwrites a file: every
\* entry output_dir held before the call is there unchanged at every
\* moment, and after the run output_dir holds, besides them, exactly one
\* new file for each file under source_root with ".cleaned" in its stem
RenamerNeverOverwrites ==
    /\ \A n \in DOMAIN output_before :
           n \in DOMAIN output_entries /\ output_entries[n] = output_before[n]
    /\ pc = "renamed" =>
           LET new == DOMAIN output_entries \ DOMAIN output_before
               cleaned == {f \in source_entries : IsCleanedFile(f)}
           IN  /\ Cardinality(new) = Cardinality(cleaned)
               /\ \A n \in new : output_entries[n].kind = "file"
               /\ {output_entries[n].data : n \in new}
                      = {<<f.dir, f.name>> : f \in cleaned}
\* three files a.cleaned.docx in three directories, output_dir holding
\* a.docx and a directory a_1.docx: the copies are a_2.docx, a_3.docx and
\* a_4.docx
ThreeSameNamesBesidePriorFiles ==
    /\ pc = "renamed"
    /\ source_entries =
           {[dir |-> d, name |-> CleanedDocx, kind |-> "file"] : d \in SourceDirs}
    /\ DOMAIN output_before =
           { <<"a">> \o DocxSuffix, <<"a", "_", "1">> \o DocxSuffix }
    /\ DOMAIN output_entries =
           DOMAIN output_before
               \cup { <<"a", "_", "2">> \o DocxSuffix,
                      <<"a", "_", "3">> \o DocxSuffix,
                      <<"a", "_", "4">> \o DocxSuffix }

=============================================================================
